---- MODULE Spec2Model ----
(***************************************************************************)
(* Resumable concurrent batch-processing engine of ai_model_processor.py:  *)
(* AIModelProcessor.process_file (the main thread), process_single_row     *)
(* (one worker-pool task per pending row), the retry loop of call_api_*,   *)
(* the completion tracker check_row_processed and the snapshot writer      *)
(* save_output_file.                                                       *)
(*                                                                         *)
(* Only the result column of the table is modelled: df is the sequence of  *)
(* its cells, position i of the sequence being DataFrame index i - 1.      *)
(* A cell is a record [na, text]: na is pandas' missing value (NaN/None),  *)
(* text is the string as a sequence of characters.                         *)
(***************************************************************************)
EXTENDS Integers, Sequences, FiniteSets, TLC

\* ---------------------------------------------------------------- bounds
MaxRows == 2
MaxWorkers == 2
MaxRetries == 2
MaxRuns == 2
MaxNameLen == 2
MaxTail == 1
MaxContent == 5
MaxImages == 2
MaxCols == 3
MaxAnchors == 2

\* ------------------------------------------------------ program constants
SnapshotEvery == 10

\* provider_config.get("retry_delay", 1)
DefaultRetryDelay == 1

RetryDelays == {1, 2}

\* ------------------------------------------------------------ cell values
SP == " "
Whitespace == {SP}

NaN == [na |-> TRUE, text |-> <<>>]
Str(s) == [na |-> FALSE, text |-> s]

\* json.dumps of the (non-empty) dict a successful call returns
NewJson == <<"{", "n", "}">>
\* a result text persisted by an earlier run
OldJson == <<"{", "o", "}">>
\* what the cell holds while the assignment df.at[...] = ... is under way
Torn == Str(<<"{">>)

Rows == 1..MaxRows

RECURSIVE LStrip(_)
LStrip(s) == IF s # <<>> /\ Head(s) \in Whitespace THEN LStrip(Tail(s)) ELSE s

RECURSIVE RStrip(_)
RStrip(s) == IF s # <<>> /\ s[Len(s)] \in Whitespace THEN RStrip(SubSeq(s, 1, Len(s) - 1)) ELSE s

Strip(s) == RStrip(LStrip(s))

\* pd.notna(v) and str(v).strip() != ""
NonEmptyCell(v) == ~v.na /\ Strip(v.text) # <<>>

\* the trim is left out
check_row_processed_no_strip(d, index) == ~d[index].na /\ d[index].text # <<>>

\* the result column is looked up under a name the table does not have
check_row_processed_no_column(d, index) == FALSE

check_row_processed(d, index) == NonEmptyCell(d[index])

\* the scan loop of process_file: indices of the rows still to process, in table order
RECURSIVE ScanFrom(_, _)
ScanFrom(d, i) ==
    IF i > Len(d) THEN <<>>
    ELSE IF check_row_processed(d, i) THEN ScanFrom(d, i + 1)
    ELSE <<i>> \o ScanFrom(d, i + 1)

\* every pending row is appended twice
PendingRows_twice(d) == ScanFrom(d, 1) \o ScanFrom(d, 1)

PendingRows(d) == ScanFrom(d, 1)

Range(s) == {s[i] : i \in DOMAIN s}

\* ------------------------------------------------------------------ files
\* The persisted result column: has_col says whether the output file exists
\* and has the result column, col holds the text of each cell.
NoColumn == [has_col |-> FALSE, col |-> [i \in Rows |-> <<>>]]

\* pd.read_csv / pd.read_excel: an empty cell is read as NaN
ReadCell(s) == IF s = <<>> THEN NaN ELSE Str(s)

\* the results of the earlier run are not merged into the loaded table
LoadColumn_fresh(f) == [i \in Rows |-> Str(<<>>)]

\* lines 1040-1054: the result column of the loaded table
LoadColumn(f) ==
    IF f.has_col THEN [i \in Rows |-> ReadCell(f.col[i])]
    ELSE [i \in Rows |-> Str(<<>>)]

\* NaN is written out as the text nan
ToCsvCell_nan(v) == IF v.na THEN <<"n", "a", "n">> ELSE v.text

\* df.to_csv: NaN is written as an empty cell
ToCsvCell(v) == IF v.na THEN <<>> ELSE v.text

\* _update_excel_results: only non-empty values are written to the sheet
UpdateExcelCell(old, v) == IF NonEmptyCell(v) THEN v.text ELSE old

\* the sheet row of a result is computed without the header offset
SaveColumn_shifted(k, f, d) ==
    IF k = "csv" THEN [has_col |-> TRUE, col |-> [i \in Rows |-> ToCsvCell(d[i])]]
    ELSE [has_col |-> TRUE,
          col |-> [i \in Rows |-> IF i < MaxRows THEN UpdateExcelCell(f.col[i], d[i + 1]) ELSE f.col[i]]]

SaveColumn(k, f, d) ==
    IF k = "csv" THEN [has_col |-> TRUE, col |-> [i \in Rows |-> ToCsvCell(d[i])]]
    ELSE [has_col |-> TRUE, col |-> [i \in Rows |-> UpdateExcelCell(f.col[i], d[i])]]

\* ----------------------------------------------------------------- remote
Outcomes == {"ok", "empty", "unparseable", "no_choices", "bad_status", "transport", "timeout", "raise"}

\* requests.exceptions.RequestException
IsRequestException(o) == o \in {"transport", "timeout"}

\* the sleep is computed from the 0-based loop index
Backoff_zero_based(retry_delay, attempt) == retry_delay * attempt

\* time.sleep(retry_delay * (attempt + 1)), attempt being the 0-based loop index
Backoff(retry_delay, attempt) == retry_delay * (attempt + 1)

\* the block is entered without taking the lock
CanAcquire_unlocked(l) == TRUE

\* with self.csv_lock: a threading.Lock is entered only while nobody holds it
CanAcquire(l) == ~l

\* if new_processed_count % 10 == 0
SnapshotDue(count) == count % SnapshotEvery = 0

\* ------------------------------------------------------------ environment
\* extensions of the input path
Extensions == {".csv", ".dat", ".xlsx", ".xls", ".xlsm"}

\* file_path.lower().endswith(('.xlsx', '.xls', '.xlsm'))
is_excel_file(ext) == ext \in {".xlsx", ".xls", ".xlsm"}

\* the branch load_input_file and save_output_file take for the path
InputKind(ext) == IF is_excel_file(ext) THEN "excel" ELSE "csv"

\* The file system: "ok", "missing" (the input path does not exist),
\* "unreadable" (reading the input raises), "readonly" (writing raises).
DiskStates == {"ok", "missing", "unreadable", "readonly"}

\* a path that does not exist is read all the same
LoadFails_unchecked(e) == e.disk = "unreadable"

\* a missing prompt column ends the run
LoadFails_strict(e) == e.disk \in {"missing", "unreadable"} \/ ~e.has_prompt_col

\* load_input_file returns None and process_file returns False
LoadFails(e) == e.disk \in {"missing", "unreadable"}

\* the write inside save_output_file raises; the function logs and returns
SaveFails(e) == e.disk = "readonly"

\* model identifiers, as sequences of characters
NameChars == {"g", "-", "."}

ModelNames == UNION {[1..n -> NameChars] : n \in 1..MaxNameLen}

\* .replace("-", "_").replace(".", "_")
model_name_safe(m) == [i \in DOMAIN m |-> IF m[i] \in {"-", "."} THEN "_" ELSE m[i]]

\* f"ai_response_{model_name_safe}"
response_col(m) == <<"ai_response_">> \o model_name_safe(m)

PromptText == <<"p">>

\* the prompt cell of a row; a missing prompt column is created with "" in every row
PromptCell(e) == IF e.has_prompt_col THEN e.prompt ELSE Str(<<>>)

\* str(row[col]) if pd.notna(row[col]) else "" (no user_prompt_template configured)
UserPrompt(v) == IF v.na THEN <<>> ELSE v.text

\* a healthy file system, a well-formed input, an endpoint that may answer anything
NormalEnv(k) ==
    [disk |-> "ok", ext |-> IF k = "excel" THEN ".xlsx" ELSE ".csv",
     has_prompt_col |-> TRUE, prompt |-> Str(PromptText), remote |-> Outcomes,
     model_name |-> <<"g">>, other_model |-> <<"g">>]

\* ------------------------------------------------------------------ state
VARIABLES
    config,             \* max_workers, max_retries, retry_delay
    kind,               \* "csv" or "excel" input
    file,               \* the persisted result column
    df,                 \* the in-memory result column
    df0,                \* df as it was when the rows were scanned
    main,               \* position of process_file
    rows_to_process,    \* indices to process, as built by the scan
    submitted,          \* how many of them were handed to the executor
    task,               \* per row: its process_single_row call
    lock,               \* csv_lock: TRUE while it is held
    new_processed_count,
    collected,          \* futures as_completed has yielded
    last_success,       \* result of the future collected last
    pbar,               \* progress bar: completions counted by pbar.update(1)
    writes,             \* per row: number of completed cell writes in this run
    env,                \* what the run is given: file system, input path, endpoint, model
    user_prompts,       \* per row: the prompt text of its task
    returned,           \* what process_file returned: "none" while it runs
    hist,               \* the invocations so far and what the previous one left
    fs,                 \* the data files on disk, column by column: input and derived output
    frame,              \* the DataFrame with all its columns, as save_output_file is given it
    copies,             \* how many times _copy_excel_with_images has run
    archive,            \* the workbook an ExcelImageExtractor is built from
    images,             \* ExcelImageExtractor.images: row key -> payload
    build,              \* position of ExcelImageExtractor._extract_images
    row_images,         \* per row: the image get_image_for_row gave its task, 0 for None
    image_data,         \* argument of _detect_image_mime
    mime_type,          \* its result
    content,            \* argument of parse_ai_response
    parsed              \* its result

vars == <<config, kind, file, df, df0, main, rows_to_process, submitted, task,
          lock, new_processed_count, collected, last_success, pbar, writes,
          env, user_prompts, returned, hist,
          fs, frame, copies, archive, images, build, row_images, image_data, mime_type, content, parsed>>

\* the state of the file, image and parsing components
aux == <<fs, frame, copies, archive, images, build, row_images, image_data, mime_type, content, parsed>>

IdleTask == [pc |-> "none", attempt |-> 0, last |-> "none", wait |-> 0, ret |-> FALSE]

Running(t) == task[t].pc \in {"delay", "call", "backoff", "failed", "write", "writing"}

NumRunning == Cardinality({t \in Rows : Running(t)})

Files == {NoColumn} \cup {[has_col |-> TRUE, col |-> c] : c \in [Rows -> {<<>>, OldJson}]}

Configs == [max_workers : 1..MaxWorkers, max_retries : 1..MaxRetries, retry_delay : {DefaultRetryDelay}]

InitProgram ==
    /\ df = [i \in Rows |-> NaN]
    /\ df0 = [i \in Rows |-> NaN]
    /\ main = "load"
    /\ rows_to_process = <<>>
    /\ submitted = 0
    /\ task = [i \in Rows |-> IdleTask]
    /\ lock = FALSE
    /\ new_processed_count = 0
    /\ collected = {}
    /\ last_success = FALSE
    /\ pbar = 0
    /\ writes = [i \in Rows |-> 0]
    /\ user_prompts = [i \in Rows |-> <<>>]
    /\ returned = "none"
    /\ hist = [run |-> 1, how |-> "first", persisted |-> file.col, pending |-> {},
               failed |-> {}, save_failed |-> FALSE]

\* no workbook, no image index, nothing sniffed or parsed yet
InitAux ==
    /\ fs = <<>>
    /\ frame = <<>>
    /\ copies = 0
    /\ archive = <<>>
    /\ images = <<>>
    /\ build = "none"
    /\ row_images = <<>>
    /\ image_data = <<>>
    /\ mime_type = "none"
    /\ content = <<>>
    /\ parsed = "none"

InitRest == InitProgram /\ InitAux

Init ==
    /\ config \in Configs
    /\ kind \in {"csv", "excel"}
    /\ env = NormalEnv(kind)
    /\ file \in Files
    /\ InitRest

\* ------------------------------------------------------------ main thread
\* load_input_file, the merge of an existing results file, the creation of
\* the result column
LoadProgram ==
    /\ main = "load"
    /\ IF LoadFails(env)
       THEN /\ df' = df
            /\ main' = "done"
            /\ returned' = "false"
       ELSE /\ df' = LoadColumn(file)
            /\ main' = "scan"
            /\ returned' = returned
    /\ UNCHANGED <<env, config, kind, file, df0, rows_to_process, submitted, task, lock,
                   new_processed_count, collected, last_success, pbar, writes>>
    /\ UNCHANGED <<user_prompts, hist>>

Load == LoadProgram /\ UNCHANGED aux

\* a run without pending rows goes on to the final snapshot
ScanProgram_always_saves ==
    /\ main = "scan"
    /\ rows_to_process' = PendingRows(df)
    /\ df0' = df
    /\ main' = IF PendingRows(df) = <<>> THEN "final_wait" ELSE "submit"
    /\ user_prompts' = [i \in Rows |-> IF i \in Range(PendingRows(df))
                                       THEN UserPrompt(PromptCell(env)) ELSE <<>>]
    /\ returned' = returned
    /\ UNCHANGED <<env, config, kind, file, df, submitted, task, lock,
                   new_processed_count, collected, last_success, pbar, writes>>
    /\ UNCHANGED hist

\* the scan loop and the early return when nothing is pending
ScanProgram ==
    /\ main = "scan"
    /\ rows_to_process' = PendingRows(df)
    /\ df0' = df
    /\ main' = IF PendingRows(df) = <<>> THEN "done" ELSE "submit"
    /\ user_prompts' = [i \in Rows |-> IF i \in Range(PendingRows(df))
                                       THEN UserPrompt(PromptCell(env)) ELSE <<>>]
    /\ returned' = IF PendingRows(df) = <<>> THEN "true" ELSE returned
    /\ UNCHANGED <<env, config, kind, file, df, submitted, task, lock,
                   new_processed_count, collected, last_success, pbar, writes>>
    /\ UNCHANGED hist

Scan == ScanProgram /\ UNCHANGED aux

\* executor.submit for the next entry of rows_to_process
Submit ==
    /\ main = "submit"
    /\ submitted < Len(rows_to_process)
    /\ submitted' = submitted + 1
    /\ task' = [task EXCEPT ![rows_to_process[submitted + 1]].pc = "queued"]
    /\ main' = IF submitted + 1 = Len(rows_to_process) THEN "collect" ELSE "submit"
    /\ UNCHANGED <<env, config, kind, file, df, df0, rows_to_process, lock,
                   new_processed_count, collected, last_success, pbar, writes>>
    /\ UNCHANGED <<user_prompts, returned, hist>>
    /\ UNCHANGED aux

\* one iteration of the as_completed loop, up to the snapshot test
Collect(t) ==
    /\ main = "collect"
    /\ t \in Range(rows_to_process) \ collected
    /\ task[t].pc = "done"
    /\ collected' = collected \cup {t}
    /\ last_success' = task[t].ret
    /\ new_processed_count' = IF task[t].ret THEN new_processed_count + 1 ELSE new_processed_count
    /\ main' = IF SnapshotDue(new_processed_count') THEN "periodic_wait" ELSE "collect"
    /\ pbar' = pbar + 1
    /\ UNCHANGED <<env, config, kind, file, df, df0, rows_to_process, submitted, task, lock, writes>>
    /\ UNCHANGED <<user_prompts, returned, hist>>
    /\ UNCHANGED aux

\* the final save does not wait for the workers
Shutdown_no_join ==
    /\ main = "collect"
    /\ main' = "final_wait"
    /\ UNCHANGED <<env, config, kind, file, df, df0, rows_to_process, submitted, task, lock,
                   new_processed_count, collected, last_success, pbar, writes>>
    /\ UNCHANGED <<user_prompts, returned, hist>>
    /\ UNCHANGED aux

\* as_completed is exhausted; the executor's exit joins the workers
Shutdown ==
    /\ main = "collect"
    /\ collected = Range(rows_to_process)
    /\ \A t \in Rows : ~Running(t)
    /\ main' = "final_wait"
    /\ UNCHANGED <<env, config, kind, file, df, df0, rows_to_process, submitted, task, lock,
                   new_processed_count, collected, last_success, pbar, writes>>
    /\ UNCHANGED <<user_prompts, returned, hist>>
    /\ UNCHANGED aux

\* with self.csv_lock: (main thread)
MainAcquire ==
    /\ main \in {"periodic_wait", "final_wait"}
    /\ CanAcquire(lock)
    /\ lock' = TRUE
    /\ main' = IF main = "periodic_wait" THEN "periodic_save" ELSE "final_save"
    /\ UNCHANGED <<env, config, kind, file, df, df0, rows_to_process, submitted, task,
                   new_processed_count, collected, last_success, pbar, writes>>
    /\ UNCHANGED <<user_prompts, returned, hist>>
    /\ UNCHANGED aux

\* a snapshot that fails leaves the lock held
MainSave_keeps_lock ==
    /\ main \in {"periodic_save", "final_save"}
    /\ file' = IF SaveFails(env) THEN file ELSE SaveColumn(kind, file, df)
    /\ hist' = [hist EXCEPT !.save_failed = @ \/ SaveFails(env)]
    /\ lock' = SaveFails(env)
    /\ main' = IF main = "periodic_save" THEN "collect" ELSE "done"
    /\ returned' = IF main = "final_save" THEN "true" ELSE returned
    /\ UNCHANGED <<env, config, kind, df, df0, rows_to_process, submitted, task,
                   new_processed_count, collected, last_success, pbar, writes>>
    /\ UNCHANGED user_prompts
    /\ UNCHANGED aux

\* save_output_file(df, input_file) and the release of the lock
MainSave ==
    /\ main \in {"periodic_save", "final_save"}
    /\ file' = IF SaveFails(env) THEN file ELSE SaveColumn(kind, file, df)
    /\ hist' = [hist EXCEPT !.save_failed = @ \/ SaveFails(env)]
    /\ lock' = FALSE
    /\ main' = IF main = "periodic_save" THEN "collect" ELSE "done"
    /\ returned' = IF main = "final_save" THEN "true" ELSE returned
    /\ UNCHANGED <<env, config, kind, df, df0, rows_to_process, submitted, task,
                   new_processed_count, collected, last_success, pbar, writes>>
    /\ UNCHANGED user_prompts
    /\ UNCHANGED aux

\* ---------------------------------------------------------------- workers
\* work items are started without regard to the size of the pool
StartTask_unbounded(t) ==
    /\ task[t].pc = "queued"
    /\ task' = [task EXCEPT ![t].pc = "delay"]
    /\ UNCHANGED <<env, config, kind, file, df, df0, main, rows_to_process, submitted, lock,
                   new_processed_count, collected, last_success, pbar, writes>>
    /\ UNCHANGED <<user_prompts, returned, hist>>
    /\ UNCHANGED aux

\* a pool thread takes the oldest queued work item
StartTask(t) ==
    /\ task[t].pc = "queued"
    /\ NumRunning < config.max_workers
    /\ \E k \in 1..submitted :
          /\ rows_to_process[k] = t
          /\ \A j \in 1..(k - 1) : task[rows_to_process[j]].pc # "queued"
    /\ task' = [task EXCEPT ![t].pc = "delay"]
    /\ UNCHANGED <<env, config, kind, file, df, df0, main, rows_to_process, submitted, lock,
                   new_processed_count, collected, last_success, pbar, writes>>
    /\ UNCHANGED <<user_prompts, returned, hist>>
    /\ UNCHANGED aux

\* time.sleep(request_delay) is over; call_ai_api enters the retry loop
EndDelay(t) ==
    /\ task[t].pc = "delay"
    /\ task' = [task EXCEPT ![t].pc = "call"]
    /\ UNCHANGED <<env, config, kind, file, df, df0, main, rows_to_process, submitted, lock,
                   new_processed_count, collected, last_success, pbar, writes>>
    /\ UNCHANGED <<user_prompts, returned, hist>>
    /\ UNCHANGED aux

\* where the task goes after the attempt with 0-based loop index a ended with outcome o
\* a response without content is taken for a result
AfterAttempt_lenient(o, a, max_retries) ==
    IF o \in {"ok", "empty"} THEN "write"
    ELSE IF o \in {"unparseable", "raise"} THEN "failed"
    ELSE IF IsRequestException(o) /\ a < max_retries - 1 THEN "backoff"
    ELSE IF a + 1 < max_retries THEN "call"
    ELSE "failed"

AfterAttempt(o, a, max_retries) ==
    IF o = "ok" THEN "write"
    ELSE IF o \in {"empty", "unparseable", "raise"} THEN "failed"
    ELSE IF IsRequestException(o) /\ a < max_retries - 1 THEN "backoff"
    ELSE IF a + 1 < max_retries THEN "call"
    ELSE "failed"

\* one iteration of `for attempt in range(max_retries)`
Attempt(t, o) ==
    /\ task[t].pc = "call"
    /\ o \in env.remote
    /\ task' = [task EXCEPT ![t] =
                  [pc |-> AfterAttempt(o, task[t].attempt, config.max_retries),
                   attempt |-> task[t].attempt + 1,
                   last |-> o,
                   wait |-> IF AfterAttempt(o, task[t].attempt, config.max_retries) = "backoff"
                            THEN Backoff(config.retry_delay, task[t].attempt) ELSE 0,
                   ret |-> FALSE]]
    /\ UNCHANGED <<env, config, kind, file, df, df0, main, rows_to_process, submitted, lock,
                   new_processed_count, collected, last_success, pbar, writes>>
    /\ UNCHANGED <<user_prompts, returned, hist>>
    /\ UNCHANGED aux

\* the retry sleep is over
EndBackoff(t) ==
    /\ task[t].pc = "backoff"
    /\ task' = [task EXCEPT ![t].pc = "call"]
    /\ UNCHANGED <<env, config, kind, file, df, df0, main, rows_to_process, submitted, lock,
                   new_processed_count, collected, last_success, pbar, writes>>
    /\ UNCHANGED <<user_prompts, returned, hist>>
    /\ UNCHANGED aux

\* a failed task leaves an error marker in its row
ReturnFalse_marks_row(t) ==
    /\ task[t].pc = "failed"
    /\ df' = [df EXCEPT ![t] = Str(<<"E">>)]
    /\ task' = [task EXCEPT ![t] = [IdleTask EXCEPT !.pc = "done", !.ret = FALSE]]
    /\ UNCHANGED <<env, config, kind, file, df0, main, rows_to_process, submitted, lock,
                   new_processed_count, collected, last_success, pbar, writes>>
    /\ UNCHANGED <<user_prompts, returned, hist>>
    /\ UNCHANGED aux

\* the call gave no result (or raised): process_single_row returns False
ReturnFalse(t) ==
    /\ task[t].pc = "failed"
    /\ task' = [task EXCEPT ![t] = [IdleTask EXCEPT !.pc = "done", !.ret = FALSE]]
    /\ UNCHANGED <<env, config, kind, file, df, df0, main, rows_to_process, submitted, lock,
                   new_processed_count, collected, last_success, pbar, writes>>
    /\ UNCHANGED <<user_prompts, returned, hist>>
    /\ UNCHANGED aux

\* with self.csv_lock: the assignment to the cell starts
BeginWrite(t) ==
    /\ task[t].pc = "write"
    /\ CanAcquire(lock)
    /\ lock' = TRUE
    /\ df' = [df EXCEPT ![t] = Torn]
    /\ task' = [task EXCEPT ![t].pc = "writing"]
    /\ UNCHANGED <<env, config, kind, file, df0, main, rows_to_process, submitted,
                   new_processed_count, collected, last_success, pbar, writes>>
    /\ UNCHANGED <<user_prompts, returned, hist>>
    /\ UNCHANGED aux

\* the assignment is complete, the lock is released, the task returns True
EndWrite(t) ==
    /\ task[t].pc = "writing"
    /\ df' = [df EXCEPT ![t] = Str(NewJson)]
    /\ lock' = FALSE
    /\ writes' = [writes EXCEPT ![t] = @ + 1]
    /\ task' = [task EXCEPT ![t] = [IdleTask EXCEPT !.pc = "done", !.ret = TRUE]]
    /\ UNCHANGED <<env, config, kind, file, df0, main, rows_to_process, submitted,
                   new_processed_count, collected, last_success, pbar>>
    /\ UNCHANGED <<user_prompts, returned, hist>>
    /\ UNCHANGED aux

Next ==
    \/ Load
    \/ Scan
    \/ Submit
    \/ \E t \in Rows : Collect(t)
    \/ Shutdown
    \/ MainAcquire
    \/ MainSave
    \/ \E t \in Rows : StartTask(t)
    \/ \E t \in Rows : EndDelay(t)
    \/ \E t \in Rows, o \in Outcomes : Attempt(t, o)
    \/ \E t \in Rows : EndBackoff(t)
    \/ \E t \in Rows : ReturnFalse(t)
    \/ \E t \in Rows : BeginWrite(t)
    \/ \E t \in Rows : EndWrite(t)

Spec == Init /\ [][Next]_vars

\* ------------------------------------------- further specifications
\* The completion tracker on tables whose cells are missing, empty,
\* whitespace-only, padded or filled.
TrackerCells == {<<>>, <<SP>>, <<SP, SP>>, OldJson, <<SP>> \o OldJson \o <<SP>>}

InitTracker ==
    /\ config = [max_workers |-> 1, max_retries |-> 2, retry_delay |-> DefaultRetryDelay]
    /\ kind \in {"csv", "excel"}
    /\ env = NormalEnv(kind)
    /\ file \in {NoColumn} \cup {[has_col |-> TRUE, col |-> c] : c \in [Rows -> TrackerCells]}
    /\ InitRest

SpecTracker == InitTracker /\ [][Next]_vars

\* One remote call with up to MaxRetries + 1 configured attempts: only the
\* first row is pending.
InitCall ==
    /\ config \in [max_workers : {1}, max_retries : 1..(MaxRetries + 1), retry_delay : RetryDelays]
    /\ kind \in {"csv", "excel"}
    /\ env = NormalEnv(kind)
    /\ file = [has_col |-> TRUE, col |-> [i \in Rows |-> IF i = 1 THEN <<>> ELSE OldJson]]
    /\ InitRest

SpecCall == InitCall /\ [][Next]_vars

\* ----------------------------------------------------------------- claims
\* a cell is blank: missing, or every character of its text is whitespace
Blank(v) == v.na \/ \A k \in 1..Len(v.text) : v.text[k] \in Whitespace

Scanned == main \notin {"load", "scan"}

Dispatched(t) == task[t].pc # "none"

\* C1: the pending list holds a row index iff the row's result cell is null
\* or blank after trimming; it is in table order; building it leaves the
\* table as it was.
C1_PendingIffBlank ==
    /\ [](Scanned =>
            /\ \A i \in Rows : (i \in Range(rows_to_process)) <=> Blank(df0[i])
            /\ \A j, k \in DOMAIN rows_to_process : j < k => rows_to_process[j] < rows_to_process[k])
    /\ [][main = "scan" => df' = df]_vars

C1_Witness ==
    /\ main = "submit"
    /\ \E i, j \in Rows :
          /\ df0[i] = Str(<<SP, SP>>) /\ i \in Range(rows_to_process)
          /\ df0[j] = Str(<<SP>> \o OldJson \o <<SP>>) /\ j \notin Range(rows_to_process)

\* C2: a row whose result cell was non-empty when the table was loaded and
\* scanned, and in particular a row whose result is in the persisted file,
\* is never dispatched, so no remote call is made for it.
C2_NoCallForCompletedRow ==
    \A t \in Rows :
        /\ Dispatched(t) => Blank(df0[t])
        /\ (file.has_col /\ file.col[t] = OldJson) => ~Dispatched(t)

C2_Witness ==
    \E t, u \in Rows :
        /\ file.has_col /\ file.col[t] = OldJson /\ ~Dispatched(t)
        /\ task[u].pc = "call" /\ task[u].attempt > 0

\* C3: a run over N pending rows collects exactly N outcomes, one per
\* dispatched row, and writes each row's cell at most once.
C3_OneOutcomePerTask ==
    /\ \A t \in Rows : writes[t] <= 1
    /\ pbar = Cardinality(collected)
    /\ collected \subseteq Range(rows_to_process)
    /\ \A t \in collected : task[t].pc = "done"
    /\ (main \in {"final_wait", "final_save", "done"} =>
            /\ pbar = Len(rows_to_process)
            /\ \A t \in Range(rows_to_process) : task[t].pc = "done"
            /\ \A t \in Rows : writes[t] = IF Dispatched(t) /\ task[t].ret THEN 1 ELSE 0)

C3_Witness ==
    /\ main = "done"
    /\ config.max_workers >= 2
    /\ Len(rows_to_process) >= 2
    /\ \E t, u \in Range(rows_to_process) : writes[t] = 1 /\ writes[u] = 0

\* threads inside a `with self.csv_lock:` block
WritersInside == {t \in Rows : task[t].pc = "writing"}

MainInside == main \in {"periodic_save", "final_save"}

\* C4: a cell write and a snapshot are never in progress together, no two
\* cell writes are in progress at once, and the table and the file change
\* only while the lock is held.
C4_SingleLock ==
    /\ [](/\ Cardinality(WritersInside) + (IF MainInside THEN 1 ELSE 0) <= 1
          /\ lock <=> (WritersInside # {} \/ MainInside))
    /\ [][/\ (df' # df /\ main # "load") => (lock \/ lock')
          /\ file' # file => lock]_vars

C4_Witness ==
    /\ main = "periodic_save"
    /\ \E t \in Rows : task[t].pc = "write"

\* C5: a snapshot written after a row's result write has completed holds
\* that row's full result, and at the end of a run the file holds the
\* result of every task that returned success.
C5_SnapshotHasCompletedWrites ==
    /\ [][(MainInside /\ ~MainInside') =>
            \A t \in Rows : writes[t] >= 1 => (file'.has_col /\ file'.col[t] = NewJson)]_vars
    /\ []((main = "done" /\ rows_to_process # <<>>) =>
            \A t \in Rows : (Dispatched(t) /\ task[t].ret) => (file.has_col /\ file.col[t] = NewJson))

C5_Witness ==
    /\ main = "collect"
    /\ \E t \in Rows :
          /\ writes[t] = 1 /\ t \notin collected
          /\ file.has_col /\ file.col[t] = NewJson

\* C6: during a run a cell only goes from blank to the one final JSON text:
\* a non-blank cell is never changed, and no snapshot holds a value whose
\* write was still under way.
C6_ResultWrittenOnce ==
    /\ [](Scanned =>
            \A t \in Rows :
                /\ ~Blank(df0[t]) => df[t] = df0[t]
                /\ task[t].pc # "writing" => df[t] \in {df0[t], Str(NewJson)}
                /\ Blank(df0[t]) /\ df[t] # df0[t] /\ task[t].pc # "writing" => writes[t] = 1
                /\ file.col[t] # Torn.text)
    /\ [][\A t \in Rows :
            (Scanned /\ ~Blank(df[t]) /\ task[t].pc # "writing") => df'[t] = df[t]]_vars

C6_Witness ==
    /\ main = "done"
    /\ \E t, u \in Rows :
          /\ df0[t] = Str(OldJson) /\ df[t] = Str(OldJson)
          /\ Blank(df0[u]) /\ df[u] = Str(NewJson) /\ file.col[u] = NewJson

\* C7: a periodic snapshot is triggered only by a successful completion
\* that brings the success count to a positive multiple of 10.
C7_PeriodicOnlyOnTenthSuccess ==
    main = "periodic_wait" =>
        /\ last_success
        /\ new_processed_count > 0
        /\ new_processed_count % SnapshotEvery = 0

\* C8: a run that dispatched tasks ends only through the final snapshot,
\* written under the lock after every worker has finished and holding every
\* result of the table.
C8_FinalSnapshot ==
    /\ []((main \in {"final_wait", "final_save"}) =>
            /\ \A t \in Rows : ~Running(t) /\ task[t].pc # "queued"
            /\ collected = Range(rows_to_process))
    /\ [][(main # "done" /\ main' = "done" /\ rows_to_process' # <<>>) =>
            /\ main = "final_save"
            /\ lock
            /\ file'.has_col
            /\ \A t \in Rows : ~Blank(df[t]) => file'.col[t] = df[t].text]_vars

C8_Witness ==
    /\ main = "done"
    /\ Len(rows_to_process) >= 2
    /\ new_processed_count > 0
    /\ new_processed_count < pbar

\* C9: after a well-formed response with a non-2xx status the call is over:
\* no further attempt is made, the task is on its way to return failure
\* and its row is as it was.
C9_NoRetryOnBadStatus ==
    \A t \in Rows :
        task[t].last = "bad_status" => (task[t].pc = "failed" /\ df[t] = df0[t])

\* C10: at most max_retries attempts; after the k-th failed attempt
\* (k < max_retries) with a transport error or timeout the task sleeps
\* k * retry_delay before the next one; nothing follows the last attempt
\* but the failure return; a successful attempt ends the call.
C10_LinearBackoff ==
    \A t \in Rows :
        /\ task[t].attempt <= config.max_retries
        /\ task[t].pc \in {"call", "backoff"} => task[t].attempt < config.max_retries
        /\ (IsRequestException(task[t].last) /\ task[t].attempt < config.max_retries) =>
              /\ task[t].pc \in {"backoff", "call"}
              /\ task[t].wait = task[t].attempt * config.retry_delay
        /\ task[t].pc = "backoff" => IsRequestException(task[t].last)
        /\ task[t].attempt = config.max_retries => task[t].wait = 0
        /\ (task[t].attempt = config.max_retries /\ task[t].last # "ok") => task[t].pc = "failed"
        /\ task[t].last = "ok" => task[t].pc \in {"write", "writing"}
        /\ task[t].pc \in {"write", "writing"} => task[t].last = "ok"

C10_Witness ==
    \E t \in Rows :
        /\ task[t].pc = "backoff"
        /\ task[t].attempt = 2
        /\ task[t].last = "timeout"
        /\ task[t].wait = 2 * config.retry_delay
        /\ config.retry_delay = 2

\* runs over every input path and disk condition: the path exists or not,
\* the file can be read or not, the output can be written or not, the
\* prompt column is there or not; one worker, the first two rows pending
InitIO ==
    /\ config = [max_workers |-> 1, max_retries |-> MaxRetries, retry_delay |-> DefaultRetryDelay]
    /\ env \in [disk : DiskStates, ext : Extensions, has_prompt_col : BOOLEAN,
                prompt : {Str(PromptText)}, remote : {Outcomes},
                model_name : {<<"g">>}, other_model : {<<"g">>}]
    /\ kind = InputKind(env.ext)
    /\ file = [has_col |-> TRUE, col |-> [i \in Rows |-> IF i <= 2 THEN <<>> ELSE OldJson]]
    /\ InitRest

SpecIO == InitIO /\ [][Next]_vars

\* runs against an endpoint that answers, and runs against one whose every
\* call fails
InitFailing ==
    /\ config \in [max_workers : 1..MaxWorkers, max_retries : {MaxRetries},
                   retry_delay : {DefaultRetryDelay}]
    /\ kind \in {"csv", "excel"}
    /\ env \in {[NormalEnv(kind) EXCEPT !.remote = r] : r \in {Outcomes, Outcomes \ {"ok"}}}
    /\ file \in {NoColumn,
                 [has_col |-> TRUE, col |-> [i \in Rows |-> IF i = 1 THEN OldJson ELSE <<>>]],
                 [has_col |-> TRUE, col |-> [i \in Rows |-> <<>>]]}
    /\ InitRest

SpecFailing == InitFailing /\ [][Next]_vars

\* the file holds the results an earlier run wrote for other_model (row 1
\* only); the run for model_name finds a result column in it exactly when
\* the two models have the same column name
OtherModelFile(e) ==
    IF response_col(e.model_name) = response_col(e.other_model)
    THEN [has_col |-> TRUE, col |-> [i \in Rows |-> IF i = 1 THEN OldJson ELSE <<>>]]
    ELSE NoColumn

InitColumn ==
    /\ config = [max_workers |-> 1, max_retries |-> MaxRetries, retry_delay |-> DefaultRetryDelay]
    /\ kind = "csv"
    /\ env \in {[NormalEnv(kind) EXCEPT !.model_name = m, !.other_model = o] :
                  m \in ModelNames, o \in ModelNames}
    /\ file = OtherModelFile(env)
    /\ InitRest

SpecColumn == InitColumn /\ [][Next]_vars

\* ------------------------------------------------------- successive runs
\* the process starts again: everything in memory is gone, the files stay
Restart(how, persisted) ==
    /\ df' = [i \in Rows |-> NaN]
    /\ df0' = [i \in Rows |-> NaN]
    /\ main' = "load"
    /\ rows_to_process' = <<>>
    /\ submitted' = 0
    /\ task' = [i \in Rows |-> IdleTask]
    /\ lock' = FALSE
    /\ new_processed_count' = 0
    /\ collected' = {}
    /\ last_success' = FALSE
    /\ pbar' = 0
    /\ writes' = [i \in Rows |-> 0]
    /\ user_prompts' = [i \in Rows |-> <<>>]
    /\ returned' = "none"
    /\ hist' = [run |-> hist.run + 1, how |-> how, persisted |-> persisted,
                pending |-> Range(rows_to_process),
                failed |-> {t \in Rows : task[t].pc = "done" /\ ~task[t].ret},
                save_failed |-> FALSE]
    /\ UNCHANGED <<config, kind>>
    /\ UNCHANGED aux

\* process_file has returned and the program is invoked again
Rerun ==
    /\ main = "done"
    /\ hist.run < MaxRuns
    /\ Restart("rerun", file.col)
    /\ UNCHANGED <<env, file>>

\* the process is killed between two writes of the output file and is
\* started again
Crash ==
    /\ main # "done"
    /\ hist.run < MaxRuns
    /\ Restart("crash", file.col)
    /\ UNCHANGED <<env, file>>

\* the output file as a killed save leaves it. df.to_csv truncates the file
\* and writes it anew: the kill cuts it in the last line, before the result
\* cell. wb.save writes the archive anew: the kill leaves an archive that
\* can neither be read (lines 1043-1054) nor updated (line 560).
TornFile(k, d) ==
    IF k = "csv"
    THEN [has_col |-> TRUE, col |-> [i \in Rows |-> IF i < MaxRows THEN ToCsvCell(d[i]) ELSE <<>>]]
    ELSE NoColumn

\* the process is killed while save_output_file writes the output file and is
\* started again
CrashDuringSave ==
    /\ main \in {"periodic_save", "final_save"}
    /\ hist.run < MaxRuns
    /\ ~SaveFails(env)
    /\ file' = TornFile(kind, df)
    /\ env' = IF kind = "csv" THEN env ELSE [env EXCEPT !.disk = "readonly"]
    /\ Restart("crash", file.col)

NextResume == Next \/ Rerun \/ Crash \/ CrashDuringSave

\* row MaxRows was completed by an earlier run; the endpoint answers or the
\* transport fails
InitResume ==
    /\ config = [max_workers |-> 1, max_retries |-> MaxRetries, retry_delay |-> DefaultRetryDelay]
    /\ kind \in {"csv", "excel"}
    /\ env = [NormalEnv(kind) EXCEPT !.remote = {"ok", "transport"}]
    /\ file = [has_col |-> TRUE, col |-> [i \in Rows |-> IF i = MaxRows THEN OldJson ELSE <<>>]]
    /\ InitRest

SpecResume == InitResume /\ [][NextResume]_vars

\* ------------------------------------------------------- image sniffing
Min(a, b) == IF a < b THEN a ELSE b

\* the Python slice d[a:b] of a bytes object, 0-based, clamped to its length
Slice(d, a, b) == SubSeq(d, a + 1, Min(b, Len(d)))

PngMagic == <<137, 80, 78, 71, 13, 10, 26, 10>>
JpegMagic == <<255, 216>>
Gif87a == <<71, 73, 70, 56, 55, 97>>
Gif89a == <<71, 73, 70, 56, 57, 97>>
Riff == <<82, 73, 70, 70>>
Webp == <<87, 69, 66, 80>>

\* anything that matches no signature is taken for a JPEG
detect_image_mime_default_jpeg(d) ==
    IF Slice(d, 0, 8) = PngMagic THEN "image/png"
    ELSE IF Slice(d, 0, 2) = JpegMagic THEN "image/jpeg"
    ELSE IF Slice(d, 0, 6) \in {Gif87a, Gif89a} THEN "image/gif"
    ELSE IF Slice(d, 0, 4) = Riff /\ Slice(d, 8, 12) = Webp THEN "image/webp"
    ELSE "image/jpeg"

detect_image_mime(d) ==
    IF Slice(d, 0, 8) = PngMagic THEN "image/png"
    ELSE IF Slice(d, 0, 2) = JpegMagic THEN "image/jpeg"
    ELSE IF Slice(d, 0, 6) \in {Gif87a, Gif89a} THEN "image/gif"
    ELSE IF Slice(d, 0, 4) = Riff /\ Slice(d, 8, 12) = Webp THEN "image/webp"
    ELSE "image/png"

\* files that begin like an image of each format
ImageHeads ==
    {PngMagic, JpegMagic, Gif87a, Gif89a} \cup
    {Riff \o <<a, b, 0, 0>> \o Webp : a \in {0, 87}, b \in {0, 82}}

\* f with the byte at position k replaced by b
Damage(f, k, b) == [i \in DOMAIN f |-> IF i = k THEN b ELSE f[i]]

\* the bytes handed to the sniffer: image files, cut short, with one byte
\* damaged, followed by up to MaxTail bytes of data
ImageDatas ==
    {Slice(Damage(h, k, b), 0, n) \o [i \in 1..m |-> 82] :
        h \in ImageHeads, k \in 0..12, b \in {0, 255}, n \in 0..12, m \in 0..MaxTail}

InitSniff ==
    /\ config = [max_workers |-> 1, max_retries |-> 1, retry_delay |-> DefaultRetryDelay]
    /\ kind = "excel"
    /\ env = NormalEnv(kind)
    /\ file = NoColumn
    /\ InitProgram
    /\ fs = <<>> /\ frame = <<>> /\ copies = 0
    /\ archive = <<>> /\ images = <<>> /\ build = "none" /\ row_images = <<>>
    /\ image_data \in ImageDatas
    /\ mime_type = "none"
    /\ content = <<>> /\ parsed = "none"

\* mime_type = self._detect_image_mime(image_data)
DetectImageMime ==
    /\ mime_type = "none"
    /\ mime_type' = detect_image_mime(image_data)
    /\ UNCHANGED <<config, kind, file, df, df0, main, rows_to_process, submitted, task,
                   lock, new_processed_count, collected, last_success, pbar, writes,
                   env, user_prompts, returned, hist>>
    /\ UNCHANGED <<fs, frame, copies, archive, images, build, row_images, image_data, content, parsed>>

NextSniff == DetectImageMime

SpecSniff == InitSniff /\ [][NextSniff]_vars

\* ---------------------------------------------------------- parsing
\* a response text is a sequence of lexical pieces: braces, a member list
\* ("k": 1), prose, the opening fence (three backquotes and json, written
\* ~~~json here), the closing fence (three backquotes, ~~~), blank, the
\* literal NaN, and a member list nested deeper than the interpreter's
\* recursion limit
FenceOpen == "~~~json"
FenceClose == "~~~"
NaNLiteral == "NaN"
DeepMembers == "deep"
Pieces == {"{", "}", "k", "x", FenceOpen, FenceClose, SP, NaNLiteral, DeepMembers}
Contents == UNION {[1..n -> Pieces] : n \in 0..MaxContent}

\* str.find / str.rfind on pieces: the first (last) position from from on
\* that holds one of the pieces S, 0 when there is none
Find(c, S, from) ==
    IF \E i \in from..Len(c) : c[i] \in S
    THEN CHOOSE i \in from..Len(c) : c[i] \in S /\ \A j \in from..(i - 1) : c[j] \notin S
    ELSE 0

RFind(c, S) ==
    IF \E i \in 1..Len(c) : c[i] \in S
    THEN CHOOSE i \in 1..Len(c) : c[i] \in S /\ \A j \in (i + 1)..Len(c) : c[j] \notin S
    ELSE 0

\* json.loads accepts exactly one value, blanks around it allowed: an
\* object or (parse_constant is not set) the literal NaN
ValidJson(c) == Strip(c) \in {<<"{", "}">>, <<"{", "k", "}">>, <<NaNLiteral>>}

\* the decoder runs out of stack on the nested value before it sees what follows
TooDeep(c) == Len(Strip(c)) >= 2 /\ Strip(c)[1] = "{" /\ Strip(c)[2] = DeepMembers

ParseFailure == [done |-> TRUE, ok |-> FALSE, value |-> <<>>]
NotParsed == [done |-> FALSE, ok |-> FALSE, value |-> <<>>]

\* a RecursionError leaves parse_ai_response: except json.JSONDecodeError
\* does not name it
Raised == [done |-> TRUE, ok |-> FALSE, value |-> <<"RecursionError">>]

\* json.loads inside the try block: a JSONDecodeError ends the function with
\* None, any other exception ends it by propagating
json_loads(c) ==
    IF ValidJson(c) THEN [done |-> TRUE, ok |-> TRUE, value |-> Strip(c)]
    ELSE IF TooDeep(c) THEN Raised
    ELSE ParseFailure

\* content[start:end] for the first '{' and the last '}'
parse_braces(c) ==
    IF Find(c, {"{"}, 1) > 0 /\ RFind(c, {"}"}) > Find(c, {"{"}, 1)
    THEN json_loads(SubSeq(c, Find(c, {"{"}, 1), RFind(c, {"}"})))
    ELSE ParseFailure

\* the fenced block: from behind the first ~~~json to the next ~~~,
\* which is also the beginning of a further ~~~json
parse_fenced(c) ==
    IF Find(c, {FenceOpen}, 1) > 0
       /\ Find(c, {FenceOpen, FenceClose}, Find(c, {FenceOpen}, 1) + 1) > Find(c, {FenceOpen}, 1) + 1
    THEN json_loads(Strip(SubSeq(c, Find(c, {FenceOpen}, 1) + 1,
                                 Find(c, {FenceOpen, FenceClose}, Find(c, {FenceOpen}, 1) + 1) - 1)))
    ELSE parse_braces(c)

parse_ai_response(c) ==
    IF Strip(c) # <<>> /\ Strip(c)[1] = "{" /\ Strip(c)[Len(Strip(c))] = "}"
    THEN json_loads(c)
    ELSE parse_fenced(c)

InitParse ==
    /\ config = [max_workers |-> 1, max_retries |-> 1, retry_delay |-> DefaultRetryDelay]
    /\ kind = "csv"
    /\ env = NormalEnv(kind)
    /\ file = NoColumn
    /\ InitProgram
    /\ fs = <<>> /\ frame = <<>> /\ copies = 0
    /\ archive = <<>> /\ images = <<>> /\ build = "none" /\ row_images = <<>>
    /\ image_data = <<>> /\ mime_type = "none"
    /\ content \in Contents
    /\ parsed = NotParsed

\* return self.parse_ai_response(content)
ParseAiResponse ==
    /\ ~parsed.done
    /\ parsed' = parse_ai_response(content)
    /\ UNCHANGED <<config, kind, file, df, df0, main, rows_to_process, submitted, task,
                   lock, new_processed_count, collected, last_success, pbar, writes,
                   env, user_prompts, returned, hist>>
    /\ UNCHANGED <<fs, frame, copies, archive, images, build, row_images, image_data, mime_type, content>>

NextParse == ParseAiResponse

SpecParse == InitParse /\ [][NextParse]_vars

\* ----------------------------------------------------------- image index
\* media files xl/media/image<n>.png are known by their number n
ImageNums == 1..MaxImages

\* 0-based rows a drawing anchor can name
AnchorRows == 1..MaxImages

\* row keys of the index
IndexRows == 1..(MaxImages + 2)

Anchors == [row : AnchorRows, rid : ImageNums]

\* a workbook as the extractor sees it: the media files, those of them whose
\* bytes cannot be read, the anchors of the drawing in document order (rId<n>
\* targets image<n>), whether the relationship file and the drawing file can
\* be decoded, and whether openpyxl loads the images of this workbook
Archives ==
    {a \in [media : SUBSET ImageNums, unreadable : SUBSET ImageNums,
            anchors : UNION {[1..n -> Anchors] : n \in 0..MaxAnchors},
            rels_ok : BOOLEAN, drawing_ok : BOOLEAN, openpyxl_ok : BOOLEAN] :
        a.unreadable \subseteq a.media}

\* self.images = {}: no row has a payload
NoImages == [r \in IndexRows |-> 0]

\* self.images[cell_key] = payload, in the order of the loop
RECURSIVE StoreAll(_, _)
StoreAll(imgs, entries) ==
    IF entries = <<>> THEN imgs
    ELSE StoreAll([imgs EXCEPT ![entries[1].key] = entries[1].img], Tail(entries))

RECURSIVE SelectSeqBy(_, _)
SelectSeqBy(sq, keep) ==
    IF sq = <<>> THEN <<>>
    ELSE IF Head(sq) \in keep THEN <<Head(sq)>> \o SelectSeqBy(Tail(sq), keep)
    ELSE SelectSeqBy(Tail(sq), keep)

\* zf.namelist(): the media files in the order of their numbers
MediaList(a) == SelectSeqBy([n \in 1..MaxImages |-> n], a.media)

\* _extract_with_openpyxl: one image object per anchor; an image whose data
\* cannot be read is skipped; a workbook that cannot be loaded gives nothing
extract_with_openpyxl(a) ==
    IF a.openpyxl_ok /\ a.rels_ok /\ a.drawing_ok
    THEN StoreAll(NoImages,
                  [k \in 1..Len(SelectSeqBy(a.anchors, {x \in Anchors : x.rid \in a.media \ a.unreadable}))
                     |-> [key |-> SelectSeqBy(a.anchors, {x \in Anchors : x.rid \in a.media \ a.unreadable})[k].row + 1,
                          img |-> SelectSeqBy(a.anchors, {x \in Anchors : x.rid \in a.media \ a.unreadable})[k].rid]])
    ELSE NoImages

\* image_positions: media file -> 1-based row of the last anchor that names
\* it, 0 for a file no anchor names
image_positions(a) ==
    IF a.rels_ok /\ a.drawing_ok
    THEN [n \in ImageNums |->
            IF \E k \in 1..Len(a.anchors) : a.anchors[k].rid = n
            THEN a.anchors[CHOOSE k \in 1..Len(a.anchors) :
                              /\ a.anchors[k].rid = n
                              /\ \A j \in (k + 1)..Len(a.anchors) : a.anchors[j].rid # n].row + 1
            ELSE 0]
    ELSE [n \in ImageNums |-> 0]

\* the row key of media file n in the loop over image_files
cell_key(a, n) == IF image_positions(a)[n] # 0 THEN image_positions(a)[n] ELSE n + 1

\* the loop over image_files stops at the first file that cannot be read
extract_from_xlsx_archive_stop(a) ==
    StoreAll(NoImages,
             [k \in 1..Len(SelectSeqBy(MediaList(a),
                                       {n \in a.media : \A m \in a.unreadable : n < m}))
                |-> [key |-> cell_key(a, SelectSeqBy(MediaList(a),
                                       {n \in a.media : \A m \in a.unreadable : n < m})[k]),
                     img |-> SelectSeqBy(MediaList(a),
                                       {n \in a.media : \A m \in a.unreadable : n < m})[k]]])

\* _extract_from_xlsx_archive: every readable media file is stored under the
\* row of its anchor or, without one, under its number + 1
extract_from_xlsx_archive(a) ==
    StoreAll(NoImages,
             [k \in 1..Len(SelectSeqBy(MediaList(a), a.media \ a.unreadable))
                |-> [key |-> cell_key(a, SelectSeqBy(MediaList(a), a.media \ a.unreadable)[k]),
                     img |-> SelectSeqBy(MediaList(a), a.media \ a.unreadable)[k]]])

\* _extract_images: the archive is read only if openpyxl gave nothing
extract_images(a) ==
    IF extract_with_openpyxl(a) # NoImages THEN extract_with_openpyxl(a)
    ELSE extract_from_xlsx_archive(a)

\* get_image_base64: 0 stands for None
get_image_base64(imgs, row) == IF row \in DOMAIN imgs THEN imgs[row] ELSE 0

InitImages ==
    /\ config = [max_workers |-> 1, max_retries |-> 1, retry_delay |-> DefaultRetryDelay]
    /\ kind = "excel"
    /\ env = NormalEnv(kind)
    /\ file = NoColumn
    /\ InitProgram
    /\ fs = <<>> /\ frame = <<>> /\ copies = 0
    /\ archive \in Archives
    /\ images = NoImages
    /\ build = "none"
    /\ row_images = <<>>
    /\ image_data = <<>> /\ mime_type = "none"
    /\ content = <<>> /\ parsed = "none"

\* ExcelImageExtractor(file_path): every exception is caught inside
BuildIndex ==
    /\ build = "none"
    /\ images' = extract_images(archive)
    /\ build' = "done"
    /\ UNCHANGED <<config, kind, file, df, df0, main, rows_to_process, submitted, task,
                   lock, new_processed_count, collected, last_success, pbar, writes,
                   env, user_prompts, returned, hist>>
    /\ UNCHANGED <<fs, frame, copies, archive, row_images, image_data, mime_type, content, parsed>>

NextImages == BuildIndex

SpecImages == InitImages /\ [][NextImages]_vars

\* --------------------------------------------- the run with its image index
\* load_input_file for a workbook: the table is read, then the extractor is
\* constructed
LoadWithImages ==
    /\ LoadProgram
    /\ images' = IF ~LoadFails(env) /\ kind = "excel" THEN extract_images(archive) ELSE images
    /\ build' = IF ~LoadFails(env) /\ kind = "excel" THEN "done" ELSE build
    /\ UNCHANGED <<fs, frame, copies, archive, row_images, image_data, mime_type, content, parsed>>

\* a lookup takes the entry out of the index
ScanWithImages_pop ==
    /\ ScanProgram
    /\ row_images' = [i \in Rows |-> IF i \in Range(PendingRows(df)) /\ build = "done"
                                     THEN get_image_base64(images, i + 1) ELSE 0]
    /\ images' = [r \in IndexRows |-> IF r - 1 \in Range(PendingRows(df)) THEN 0 ELSE images[r]]
    /\ UNCHANGED <<fs, frame, copies, archive, build, image_data, mime_type, content, parsed>>

\* the scan loop with get_image_for_row: the row with index i (0-based
\* i - 1) is sheet row i + 1
ScanWithImages ==
    /\ ScanProgram
    /\ row_images' = [i \in Rows |-> IF i \in Range(PendingRows(df)) /\ build = "done"
                                     THEN get_image_base64(images, i + 1) ELSE 0]
    /\ images' = images
    /\ UNCHANGED <<fs, frame, copies, archive, build, image_data, mime_type, content, parsed>>

NextIndexRun ==
    \/ LoadWithImages
    \/ ScanWithImages
    \/ Submit
    \/ \E t \in Rows : Collect(t)
    \/ Shutdown
    \/ MainAcquire
    \/ MainSave
    \/ \E t \in Rows : StartTask(t)
    \/ \E t \in Rows : EndDelay(t)
    \/ \E t \in Rows, o \in Outcomes : Attempt(t, o)
    \/ \E t \in Rows : EndBackoff(t)
    \/ \E t \in Rows : ReturnFalse(t)
    \/ \E t \in Rows : BeginWrite(t)
    \/ \E t \in Rows : EndWrite(t)

\* workbooks with all their pictures readable and one anchor; two workers
InitIndexRun ==
    /\ config = [max_workers |-> 2, max_retries |-> MaxRetries, retry_delay |-> DefaultRetryDelay]
    /\ kind = "excel"
    /\ env = [NormalEnv(kind) EXCEPT !.remote = {"ok", "transport"}]
    /\ file = NoColumn
    /\ InitProgram
    /\ fs = <<>> /\ frame = <<>> /\ copies = 0
    /\ archive \in {a \in Archives : /\ a.media = ImageNums /\ a.unreadable = {}
                                     /\ Len(a.anchors) = 1
                                     /\ a.rels_ok /\ a.drawing_ok}
    /\ images = NoImages
    /\ build = "none"
    /\ row_images = [i \in Rows |-> 0]
    /\ image_data = <<>> /\ mime_type = "none"
    /\ content = <<>> /\ parsed = "none"

SpecIndexRun == InitIndexRun /\ [][NextIndexRun]_vars

\* ------------------------------------------------- the files, cell by cell
\* a data file: the header cells from left to right ("" for an empty one),
\* below each header cell the cells of its column, and the embedded pictures
Absent == [exists |-> FALSE, header |-> <<>>, cols |-> <<>>, pictures |-> {}]

BlankHeader == ""
PromptCol == "user_prompt"
NoteCol == "note"

\* response_col for the model of the run
ResultCol == "ai_response_g"

\* the name pandas gives the k-th column when its header cell is empty
Unnamed(k) == <<"Unnamed: 0", "Unnamed: 1", "Unnamed: 2", "Unnamed: 3", "Unnamed: 4">>[k]

\* cell texts pandas reads as missing values
NaText == <<"N", "A">>
NaValues == {<<>>, NaText, <<"NaN">>}

\* pd.read_csv / pd.read_excel on one cell
ParseCell(s) == IF s \in NaValues THEN NaN ELSE Str(s)

\* the input path is base + ext
InputBase == "data"
input_file(e) == InputBase \o e.ext

\* os.path.splitext and the _results suffix
get_output_file_path(e) ==
    IF is_excel_file(e.ext) THEN InputBase \o "_results" \o e.ext ELSE input_file(e)

Paths(e) == {input_file(e), get_output_file_path(e)}

\* under this name fs keeps the input file as it was when the run began
AtStart == "at start"

\* the DataFrame before anything is loaded
NoFrame == [header |-> <<>>, cols |-> <<>>]

\* position of column name in a header, 0 if it is not there
ColumnOf(header, name) ==
    IF \E j \in 1..Len(header) : header[j] = name
    THEN CHOOSE j \in 1..Len(header) : header[j] = name /\ \A i \in 1..(j - 1) : header[i] # name
    ELSE 0

\* pd.read_csv / pd.read_excel: the table of a file
ReadTable(f) ==
    [header |-> [j \in 1..Len(f.header) |-> IF f.header[j] = BlankHeader THEN Unnamed(j) ELSE f.header[j]],
     cols |-> [j \in 1..Len(f.header) |-> [i \in Rows |-> ParseCell(f.cols[j][i])]]]

\* df[name] = values: replaces the column or appends it
SetColumn(fr, name, values) ==
    IF ColumnOf(fr.header, name) # 0
    THEN [fr EXCEPT !.cols[ColumnOf(fr.header, name)] = values]
    ELSE [header |-> Append(fr.header, name), cols |-> Append(fr.cols, values)]

\* lines 1003-1008: a missing prompt column is created empty
WithPromptColumn(fr) ==
    IF ColumnOf(fr.header, PromptCol) = 0
    THEN SetColumn(fr, PromptCol, [i \in Rows |-> Str(<<>>)])
    ELSE fr

\* lines 1040-1051: the results of an existing results workbook are merged
WithExistingResults(fr, e, files) ==
    IF is_excel_file(e.ext) /\ files[get_output_file_path(e)].exists
       /\ ColumnOf(ReadTable(files[get_output_file_path(e)]).header, ResultCol) # 0
    THEN SetColumn(fr, ResultCol,
                   ReadTable(files[get_output_file_path(e)]).cols[
                       ColumnOf(ReadTable(files[get_output_file_path(e)]).header, ResultCol)])
    ELSE fr

\* lines 1053-1054
WithResultColumn(fr) ==
    IF ColumnOf(fr.header, ResultCol) = 0
    THEN SetColumn(fr, ResultCol, [i \in Rows |-> Str(<<>>)])
    ELSE fr

\* the table process_file works on
LoadFrame(e, files) ==
    WithResultColumn(WithExistingResults(WithPromptColumn(ReadTable(files[input_file(e)])), e, files))

\* df.to_csv(output_file, index=False)
to_csv(fr) ==
    [exists |-> TRUE,
     header |-> fr.header,
     cols |-> [j \in 1..Len(fr.header) |-> [i \in Rows |-> ToCsvCell(fr.cols[j][i])]],
     pictures |-> {}]

\* lines 572-589: the first header cell that holds the column name or is
\* empty, at the latest the one behind the last column
result_col_idx(header) ==
    IF \E j \in 1..Len(header) : header[j] \in {ResultCol, BlankHeader}
    THEN CHOOSE j \in 1..Len(header) :
            /\ header[j] \in {ResultCol, BlankHeader}
            /\ \A i \in 1..(j - 1) : header[i] \notin {ResultCol, BlankHeader}
    ELSE Len(header) + 1

\* _update_excel_results: header cell and non-empty results are written
\* into the sheet, everything else of the workbook is kept
update_excel_results(fr, f) ==
    LET idx == result_col_idx(f.header)
        values == fr.cols[ColumnOf(fr.header, ResultCol)]
        old == IF idx <= Len(f.header) THEN f.cols[idx] ELSE [i \in Rows |-> <<>>]
        new == [i \in Rows |-> UpdateExcelCell(old[i], values[i])]
    IN  IF ColumnOf(fr.header, ResultCol) = 0 THEN f
        ELSE IF idx <= Len(f.header)
        THEN [f EXCEPT !.header[idx] = ResultCol, !.cols[idx] = new]
        ELSE [f EXCEPT !.header = Append(f.header, ResultCol), !.cols = Append(f.cols, new)]

\* the workbook is copied on every save
NeedsCopy_always(files, e) == TRUE

\* line 533
NeedsCopy(files, e) == ~files[get_output_file_path(e)].exists

\* save_output_file
save_output_file(fr, e, files) ==
    IF is_excel_file(e.ext)
    THEN [files EXCEPT ![get_output_file_path(e)] =
            update_excel_results(fr, IF NeedsCopy(files, e) THEN files[input_file(e)] ELSE @)]
    ELSE [files EXCEPT ![get_output_file_path(e)] = to_csv(fr)]

\* header rows: up to MaxCols cells, each name at most once, empty cells
\* anywhere
Headers ==
    {h \in UNION {[1..n -> {PromptCol, NoteCol, BlankHeader}] : n \in 1..MaxCols} :
        \A i, j \in 1..Len(h) : (i # j /\ h[i] = h[j]) => h[i] = BlankHeader}

\* input files: in row 1 every column holds the same text (nothing, a value
\* or NA), the other rows hold values
InputFiles ==
    {[exists |-> TRUE,
      header |-> h,
      cols |-> [j \in 1..Len(h) |-> [i \in Rows |-> IF i = 1 THEN c ELSE <<"v">>]],
      pictures |-> pics] :
        h \in Headers, c \in {<<>>, <<"v">>, NaText}, pics \in {{}, {"picture"}}}

\* the results workbook of an earlier run: the input with row 1 completed
EarlierResults(f) ==
    update_excel_results([header |-> <<ResultCol>>,
                          cols |-> <<[i \in Rows |-> IF i = 1 THEN Str(OldJson) ELSE NaN]>>], f)

InitSheet ==
    /\ config = [max_workers |-> 1, max_retries |-> 1, retry_delay |-> DefaultRetryDelay]
    /\ kind \in {"csv", "excel"}
    /\ env = NormalEnv(kind)
    /\ file = NoColumn
    /\ InitProgram
    /\ \E f \in InputFiles, earlier \in BOOLEAN :
          /\ kind = "csv" => (f.pictures = {} /\ ~earlier)
          /\ fs = [q \in Paths(env) \cup {AtStart} |->
                     IF q \in {input_file(env), AtStart} THEN f
                     ELSE IF earlier THEN EarlierResults(f) ELSE Absent]
    /\ frame = NoFrame
    /\ copies = 0
    /\ archive = <<>> /\ images = <<>> /\ build = "none" /\ row_images = <<>>
    /\ image_data = <<>> /\ mime_type = "none"
    /\ content = <<>> /\ parsed = "none"

\* load_input_file and the preparation of the columns
LoadTable ==
    /\ frame = NoFrame
    /\ frame' = LoadFrame(env, fs)
    /\ UNCHANGED <<config, kind, file, df, df0, main, rows_to_process, submitted, task,
                   lock, new_processed_count, collected, last_success, pbar, writes,
                   env, user_prompts, returned, hist>>
    /\ UNCHANGED <<fs, copies, archive, images, build, row_images, image_data, mime_type,
                   content, parsed>>

\* df.at[index, response_col] = full_response for a pending row
RecordResult(t) ==
    /\ frame # NoFrame
    /\ ~NonEmptyCell(frame.cols[ColumnOf(frame.header, ResultCol)][t])
    /\ frame' = [frame EXCEPT !.cols[ColumnOf(frame.header, ResultCol)][t] = Str(NewJson)]
    /\ UNCHANGED <<config, kind, file, df, df0, main, rows_to_process, submitted, task,
                   lock, new_processed_count, collected, last_success, pbar, writes,
                   env, user_prompts, returned, hist>>
    /\ UNCHANGED <<fs, copies, archive, images, build, row_images, image_data, mime_type,
                   content, parsed>>

\* a snapshot: save_output_file(df, input_file)
SaveOutputFile ==
    /\ frame # NoFrame
    /\ fs' = save_output_file(frame, env, fs)
    /\ copies' = IF is_excel_file(env.ext) /\ NeedsCopy(fs, env) THEN copies + 1 ELSE copies
    /\ UNCHANGED <<config, kind, file, df, df0, main, rows_to_process, submitted, task,
                   lock, new_processed_count, collected, last_success, pbar, writes,
                   env, user_prompts, returned, hist>>
    /\ UNCHANGED <<frame, archive, images, build, row_images, image_data, mime_type,
                   content, parsed>>

NextSheet == LoadTable \/ (\E t \in Rows : RecordResult(t)) \/ SaveOutputFile

SpecSheet == InitSheet /\ [][NextSheet]_vars

\* ------------------------------------------- workbooks of several sheets
MaxSheets == 2

\* the data rows of a sheet; sheet row 1 is the header
SheetRows == 2..(MaxRows + 1)

\* a cell of the prompt column and a picture are known by sheet and row
NoPicture == [sheet |-> 0, row |-> 0]
NoResult == [prompt |-> NoPicture, image |-> NoPicture]

\* a sheet: the rows with an anchored picture and the cells of the result
\* column; the prompt cell of row r of sheet s reads [sheet |-> s, row |-> r]
\* a workbook: its sheets in order and the index of the active one
Books ==
    UNION {[sheets : [1..n -> [pictures : SUBSET SheetRows, result : {[r \in SheetRows |-> NoResult]}]],
            active : 1..n] : n \in 1..MaxSheets}

NoBook == [sheets |-> <<>>, active |-> 0]

\* pd.read_excel(file_path, engine='openpyxl'): the first sheet; table row
\* t (0-based t - 1) is its sheet row t + 1
read_excel(book) ==
    [prompt |-> [t \in Rows |-> [sheet |-> 1, row |-> t + 1]],
     result |-> [t \in Rows |-> NoResult]]

\* _extract_with_openpyxl: for sheet_name in wb.sheetnames, the key is the
\* row alone, so the last sheet with a picture in that row has the entry
extract_all_sheets(book) ==
    [r \in SheetRows |->
        IF \E n \in 1..Len(book.sheets) : r \in book.sheets[n].pictures
        THEN [sheet |-> CHOOSE n \in 1..Len(book.sheets) :
                            /\ r \in book.sheets[n].pictures
                            /\ \A m \in (n + 1)..Len(book.sheets) : r \notin book.sheets[m].pictures,
              row |-> r]
        ELSE NoPicture]

\* the answer of the endpoint to a prompt and an image
AnswerTo(prompt, image) == [prompt |-> prompt, image |-> image]

\* _update_excel_results on ws = wb.active: the value of table row idx
\* goes to sheet row idx + 2
update_active_sheet(book, results) ==
    [book EXCEPT !.sheets[book.active].result =
        [r \in SheetRows |-> IF results[r - 1] # NoResult THEN results[r - 1] ELSE @[r]]]

InitBook ==
    /\ config = [max_workers |-> 1, max_retries |-> 1, retry_delay |-> DefaultRetryDelay]
    /\ kind = "excel"
    /\ env = NormalEnv(kind)
    /\ file = NoColumn
    /\ InitProgram
    /\ archive \in Books
    /\ fs = NoBook
    /\ frame = NoFrame
    /\ copies = 0
    /\ images = [r \in SheetRows |-> NoPicture]
    /\ build = "none"
    /\ row_images = [t \in Rows |-> NoPicture]
    /\ image_data = <<>> /\ mime_type = "none"
    /\ content = <<>> /\ parsed = "none"

\* load_input_file: the table and the image index
LoadBook ==
    /\ build = "none"
    /\ frame' = read_excel(archive)
    /\ images' = extract_all_sheets(archive)
    /\ build' = "done"
    /\ UNCHANGED <<config, kind, file, df, df0, main, rows_to_process, submitted, task,
                   lock, new_processed_count, collected, last_success, pbar, writes,
                   env, user_prompts, returned, hist>>
    /\ UNCHANGED <<fs, copies, archive, row_images, image_data, mime_type, content, parsed>>

\* the scan loop: get_image_for_row for every row, excel_row = row_index + 2
ScanBook ==
    /\ build = "done"
    /\ row_images' = [t \in Rows |-> images[t + 1]]
    /\ build' = "scanned"
    /\ UNCHANGED <<config, kind, file, df, df0, main, rows_to_process, submitted, task,
                   lock, new_processed_count, collected, last_success, pbar, writes,
                   env, user_prompts, returned, hist>>
    /\ UNCHANGED <<fs, frame, copies, archive, images, image_data, mime_type, content, parsed>>

\* process_single_row: the answer to the row's prompt and image is recorded
RecordBook(t) ==
    /\ build = "scanned"
    /\ frame.result[t] = NoResult
    /\ frame' = [frame EXCEPT !.result[t] = AnswerTo(frame.prompt[t], row_images[t])]
    /\ UNCHANGED <<config, kind, file, df, df0, main, rows_to_process, submitted, task,
                   lock, new_processed_count, collected, last_success, pbar, writes,
                   env, user_prompts, returned, hist>>
    /\ UNCHANGED <<fs, copies, archive, images, build, row_images, image_data, mime_type,
                   content, parsed>>

\* save_output_file: the input workbook is copied if there is no output
\* workbook yet, then the results are written into the active sheet
SaveBook ==
    /\ build = "scanned"
    /\ fs' = update_active_sheet(IF fs = NoBook THEN archive ELSE fs, frame.result)
    /\ copies' = IF fs = NoBook THEN 1 ELSE copies
    /\ UNCHANGED <<config, kind, file, df, df0, main, rows_to_process, submitted, task,
                   lock, new_processed_count, collected, last_success, pbar, writes,
                   env, user_prompts, returned, hist>>
    /\ UNCHANGED <<frame, archive, images, build, row_images, image_data, mime_type,
                   content, parsed>>

NextBook == LoadBook \/ ScanBook \/ (\E t \in Rows : RecordBook(t)) \/ SaveBook

SpecBook == InitBook /\ [][NextBook]_vars

\* ---------------------------------------------------------------- reset
\* the result column of another model
OtherCol == "ai_response_h"

\* reset_progress: the results workbook of a workbook input is removed; a
\* delimited file is loaded, its result column is set to "" and it is saved
reset_progress(e, files) ==
    IF is_excel_file(e.ext)
    THEN [files EXCEPT ![get_output_file_path(e)] = Absent]
    ELSE save_output_file(
             IF ColumnOf(ReadTable(files[input_file(e)]).header, ResultCol) # 0
             THEN SetColumn(ReadTable(files[input_file(e)]), ResultCol, [i \in Rows |-> Str(<<>>)])
             ELSE ReadTable(files[input_file(e)]),
             e, files)

\* a file with a column appended
WithColumn(f, name, cells) ==
    [f EXCEPT !.header = Append(f.header, name), !.cols = Append(f.cols, cells)]

\* the file that holds the results: the input itself for delimited text,
\* the results workbook for a workbook; mine and other say which models
\* have a result column in it, done which rows the current model completed
ResultsFile(f, mine, other, done) ==
    IF other
    THEN WithColumn(IF mine THEN WithColumn(f, ResultCol, [i \in Rows |-> IF i \in done THEN OldJson ELSE <<>>])
                    ELSE f,
                    OtherCol, [i \in Rows |-> OldJson])
    ELSE IF mine THEN WithColumn(f, ResultCol, [i \in Rows |-> IF i \in done THEN OldJson ELSE <<>>])
    ELSE f

\* inputs with a prompt column and possibly a second column
ResetInputs ==
    {[exists |-> TRUE, header |-> h, cols |-> [j \in 1..Len(h) |-> [i \in Rows |-> <<"v">>]],
      pictures |-> pics] : h \in {<<PromptCol>>, <<PromptCol, NoteCol>>}, pics \in {{}, {"picture"}}}

InitReset ==
    /\ config = [max_workers |-> 1, max_retries |-> 1, retry_delay |-> DefaultRetryDelay]
    /\ kind \in {"csv", "excel"}
    /\ env = NormalEnv(kind)
    /\ file = NoColumn
    /\ InitProgram
    /\ \E f \in ResetInputs, mine \in BOOLEAN, other \in BOOLEAN, done \in SUBSET Rows :
          /\ kind = "csv" => f.pictures = {}
          /\ ~mine => done = {}
          /\ fs = [q \in Paths(env) \cup {AtStart} |->
                     IF kind = "csv" THEN ResultsFile(f, mine, other, done)
                     ELSE IF q \in {input_file(env), AtStart} THEN f
                     ELSE IF mine \/ other THEN ResultsFile(f, mine, other, done)
                     ELSE Absent]
    /\ frame = NoFrame
    /\ copies = 0
    /\ archive = <<>> /\ images = <<>> /\ build = "none" /\ row_images = <<>>
    /\ image_data = <<>> /\ mime_type = "none"
    /\ content = <<>> /\ parsed = "none"

\* the program is invoked with the reset flag
ResetProgress ==
    /\ hist.run <= MaxRuns
    /\ fs' = reset_progress(env, fs)
    /\ frame' = NoFrame
    /\ hist' = [hist EXCEPT !.run = @ + 1, !.how = "reset"]
    /\ UNCHANGED <<config, kind, file, df, df0, main, rows_to_process, submitted, task,
                   lock, new_processed_count, collected, last_success, pbar, writes,
                   env, user_prompts, returned>>
    /\ UNCHANGED <<copies, archive, images, build, row_images, image_data, mime_type,
                   content, parsed>>

NextReset == LoadTable \/ (\E t \in Rows : RecordResult(t)) \/ SaveOutputFile \/ ResetProgress

SpecReset == InitReset /\ [][NextReset]_vars

\* ------------------------------------------- archives of several drawings
MaxDrawings == 2

\* a drawing with one picture: its relationship file maps rId<rid> to the
\* media file image<target>, its anchor names rId<rid> at 0-based row row
Drawings == [rid : ImageNums, target : ImageNums, row : AnchorRows]

\* the drawings of an archive in the order of zf.namelist()
DrawingLists == UNION {[1..n -> Drawings] : n \in 1..MaxDrawings}

\* lines 133-144: one dictionary for all relationship files, a later file
\* overwrites the entry of an earlier one; 0 for an identifier without entry
drawing_rels(ds) ==
    [i \in ImageNums |->
        IF \E k \in 1..Len(ds) : ds[k].rid = i
        THEN ds[CHOOSE k \in 1..Len(ds) :
                    ds[k].rid = i /\ \A j \in (k + 1)..Len(ds) : ds[j].rid # i].target
        ELSE 0]

\* lines 147-168: the anchors of all drawings are resolved through that
\* dictionary; the last anchor resolved to a media file gives its row
positions_of_drawings(ds) ==
    [n \in ImageNums |->
        IF \E k \in 1..Len(ds) : drawing_rels(ds)[ds[k].rid] = n
        THEN ds[CHOOSE k \in 1..Len(ds) :
                    /\ drawing_rels(ds)[ds[k].rid] = n
                    /\ \A j \in (k + 1)..Len(ds) : drawing_rels(ds)[ds[j].rid] # n].row + 1
        ELSE 0]

\* the media files of the archive, in the order of their numbers
MediaOfDrawings(ds) == SelectSeqBy([n \in 1..MaxImages |-> n], {ds[k].target : k \in 1..Len(ds)})

\* lines 171-194: every media file under the row of its position or, without
\* one, under its number + 1
extract_from_drawings(ds) ==
    StoreAll(NoImages,
             [k \in 1..Len(MediaOfDrawings(ds)) |->
                [key |-> IF positions_of_drawings(ds)[MediaOfDrawings(ds)[k]] # 0
                         THEN positions_of_drawings(ds)[MediaOfDrawings(ds)[k]]
                         ELSE MediaOfDrawings(ds)[k] + 1,
                 img |-> MediaOfDrawings(ds)[k]]])

InitDrawings ==
    /\ config = [max_workers |-> 1, max_retries |-> 1, retry_delay |-> DefaultRetryDelay]
    /\ kind = "excel"
    /\ env = NormalEnv(kind)
    /\ file = NoColumn
    /\ InitProgram
    /\ fs = <<>> /\ frame = <<>> /\ copies = 0
    /\ archive \in DrawingLists
    /\ images = NoImages
    /\ build = "none"
    /\ row_images = <<>>
    /\ image_data = <<>> /\ mime_type = "none"
    /\ content = <<>> /\ parsed = "none"

\* _extract_from_xlsx_archive on an archive openpyxl gave no image for
BuildFromDrawings ==
    /\ build = "none"
    /\ images' = extract_from_drawings(archive)
    /\ build' = "done"
    /\ UNCHANGED <<config, kind, file, df, df0, main, rows_to_process, submitted, task,
                   lock, new_processed_count, collected, last_success, pbar, writes,
                   env, user_prompts, returned, hist>>
    /\ UNCHANGED <<fs, frame, copies, archive, row_images, image_data, mime_type, content, parsed>>

NextDrawings == BuildFromDrawings

SpecDrawings == InitDrawings /\ [][NextDrawings]_vars

\* ------------------------------------------------------- termination
\* the assignment to the cell raises: the with statement releases the lock,
\* except Exception returns False, the cell is as it was
WriteRaises(t) ==
    /\ task[t].pc = "writing"
    /\ df' = [df EXCEPT ![t] = df0[t]]
    /\ lock' = FALSE
    /\ task' = [task EXCEPT ![t] = [IdleTask EXCEPT !.pc = "done", !.ret = FALSE]]
    /\ UNCHANGED <<env, config, kind, file, df0, main, rows_to_process, submitted,
                   new_processed_count, collected, last_success, pbar, writes>>
    /\ UNCHANGED <<user_prompts, returned, hist>>
    /\ UNCHANGED aux

NextLive == Next \/ \E t \in Rows : WriteRaises(t)

\* every request returns a usable answer, an unusable one, or times out;
\* the output file can or cannot be written
InitLive ==
    /\ config \in [max_workers : {1, 2}, max_retries : {2}, retry_delay : {DefaultRetryDelay}]
    /\ kind \in {"csv", "excel"}
    /\ \E d \in {"ok", "readonly"} :
          env = [NormalEnv(kind) EXCEPT !.disk = d, !.remote = {"ok", "bad_status", "timeout"}]
    /\ file \in {NoColumn,
                 [has_col |-> TRUE, col |-> [i \in Rows |-> IF i = 1 THEN OldJson ELSE <<>>]],
                 [has_col |-> TRUE, col |-> [i \in Rows |-> OldJson]]}
    /\ InitRest

\* threads that can take a step are scheduled, sleeps end, requests return
SpecLive == InitLive /\ [][NextLive]_vars /\ WF_vars(NextLive)

\* ------------------------------------------- one answer and its record
\* The worker of row 1 receives a response text, parses it and records the
\* value; the run ends with the final snapshot and the program is started
\* again. The other rows were completed by an earlier run.
MaxAnswer == 3

\* response texts of up to MaxAnswer pieces
Answers == UNION {[1..n -> Pieces] : n \in 0..MaxAnswer}

\* lines 934-936: without content there is nothing to parse
call_ai_api(c) == IF c # <<>> THEN parse_ai_response(c) ELSE ParseFailure

\* `if result:` for the parsed values: the empty object is false, an object
\* with members and the float nan are true
Truthy(p) == p.ok /\ p.value # <<"{", "}">>

\* json.dumps(result, ensure_ascii=False): an object by its members, nan as NaN
json_dumps(v) == IF v = <<NaNLiteral>> THEN <<"NaN">> ELSE <<"{">> \o SubSeq(v, 2, Len(v) - 1) \o <<"}">>

\* process_single_row after call_ai_api: a true result is written, a false
\* one and an exception (except Exception) give False
AfterAnswer(p) == IF p # Raised /\ Truthy(p) THEN "write" ELSE "failed"

\* the result column of the table in memory
ResultColumn(fr) == fr.cols[ColumnOf(fr.header, ResultCol)]

\* an input whose rows behind the first were completed by an earlier run:
\* a delimited file carries the results itself, a workbook has them in its
\* results workbook
AnsweredColumn == [i \in Rows |-> IF i = 1 THEN NaN ELSE Str(OldJson)]

AnswerInput(k) ==
    IF k = "csv"
    THEN [exists |-> TRUE, header |-> <<PromptCol, ResultCol>>,
          cols |-> <<[i \in Rows |-> <<"v">>], [i \in Rows |-> ToCsvCell(AnsweredColumn[i])]>>,
          pictures |-> {}]
    ELSE [exists |-> TRUE, header |-> <<PromptCol>>, cols |-> <<[i \in Rows |-> <<"v">>]>>,
          pictures |-> {}]

InitAnswer ==
    /\ config = [max_workers |-> 1, max_retries |-> 1, retry_delay |-> DefaultRetryDelay]
    /\ kind \in {"csv", "excel"}
    /\ env = NormalEnv(kind)
    /\ file = NoColumn
    /\ InitProgram
    /\ fs = [q \in Paths(env) \cup {AtStart} |->
               IF q \in {input_file(env), AtStart} THEN AnswerInput(kind)
               ELSE update_excel_results([header |-> <<ResultCol>>, cols |-> <<AnsweredColumn>>],
                                         AnswerInput(kind))]
    /\ frame = NoFrame
    /\ copies = 0
    /\ archive = <<>> /\ images = <<>> /\ build = "none" /\ row_images = <<>>
    /\ image_data = <<>> /\ mime_type = "none"
    /\ content = <<>> /\ parsed = NotParsed

\* the request of a pending row is answered with some text
Answer(t) ==
    /\ frame # NoFrame
    /\ hist.run <= MaxRuns
    /\ task[t].pc = "none"
    /\ ~check_row_processed(ResultColumn(frame), t)
    /\ \A u \in 1..(t - 1) : task[u].pc = "done" \/ check_row_processed(ResultColumn(frame), u)
    /\ \E c \in Answers : content' = c
    /\ parsed' = NotParsed
    /\ task' = [task EXCEPT ![t] = [IdleTask EXCEPT !.pc = "parse", !.attempt = 1, !.last = "ok"]]
    /\ UNCHANGED <<config, kind, file, df, df0, main, rows_to_process, submitted,
                   lock, new_processed_count, collected, last_success, pbar, writes,
                   env, user_prompts, returned, hist>>
    /\ UNCHANGED <<fs, frame, copies, archive, images, build, row_images, image_data, mime_type>>

\* result = self.call_ai_api(...) and the test of the result
ParseAnswer(t) ==
    /\ task[t].pc = "parse"
    /\ parsed' = call_ai_api(content)
    /\ task' = [task EXCEPT ![t].pc = AfterAnswer(call_ai_api(content))]
    /\ UNCHANGED <<config, kind, file, df, df0, main, rows_to_process, submitted,
                   lock, new_processed_count, collected, last_success, pbar, writes,
                   env, user_prompts, returned, hist>>
    /\ UNCHANGED <<fs, frame, copies, archive, images, build, row_images, image_data, mime_type,
                   content>>

\* lines 975-978: the text of the result is assigned to the cell
RecordAnswer(t) ==
    /\ task[t].pc = "write"
    /\ frame' = [frame EXCEPT !.cols[ColumnOf(frame.header, ResultCol)][t] = Str(json_dumps(parsed.value))]
    /\ writes' = [writes EXCEPT ![t] = @ + 1]
    /\ task' = [task EXCEPT ![t].pc = "done", ![t].ret = TRUE]
    /\ UNCHANGED <<config, kind, file, df, df0, main, rows_to_process, submitted,
                   lock, new_processed_count, collected, last_success, pbar,
                   env, user_prompts, returned, hist>>
    /\ UNCHANGED <<fs, copies, archive, images, build, row_images, image_data, mime_type,
                   content, parsed>>

\* lines 979-983
AnswerFalse(t) ==
    /\ task[t].pc = "failed"
    /\ task' = [task EXCEPT ![t].pc = "done", ![t].ret = FALSE]
    /\ UNCHANGED <<config, kind, file, df, df0, main, rows_to_process, submitted,
                   lock, new_processed_count, collected, last_success, pbar, writes,
                   env, user_prompts, returned, hist>>
    /\ UNCHANGED aux

\* rows the run dispatched
Answered == {t \in Rows : task[t].pc # "none"}

\* process_file comes to its end (without a snapshot when no row was
\* pending, lines 1083-1085) and the program is started again
FinishRun ==
    /\ frame # NoFrame
    /\ hist.run <= MaxRuns
    /\ \A t \in Rows : task[t].pc = "done" \/ check_row_processed(ResultColumn(frame), t)
    /\ fs' = IF Answered = {} THEN fs ELSE save_output_file(frame, env, fs)
    /\ copies' = IF Answered # {} /\ is_excel_file(env.ext) /\ NeedsCopy(fs, env) THEN copies + 1 ELSE copies
    /\ frame' = NoFrame
    /\ task' = [t \in Rows |-> IdleTask]
    /\ writes' = [t \in Rows |-> 0]
    /\ content' = <<>>
    /\ parsed' = NotParsed
    /\ hist' = [hist EXCEPT !.run = @ + 1, !.how = "rerun", !.pending = Answered,
                            !.failed = {t \in Rows : task[t].pc = "done" /\ ~task[t].ret}]
    /\ UNCHANGED <<config, kind, file, df, df0, main, rows_to_process, submitted,
                   lock, new_processed_count, collected, last_success, pbar,
                   env, user_prompts, returned>>
    /\ UNCHANGED <<archive, images, build, row_images, image_data, mime_type>>

NextAnswer ==
    \/ LoadTable
    \/ \E t \in Rows : Answer(t)
    \/ \E t \in Rows : ParseAnswer(t)
    \/ \E t \in Rows : RecordAnswer(t)
    \/ \E t \in Rows : AnswerFalse(t)
    \/ FinishRun

SpecAnswer == InitAnswer /\ [][NextAnswer]_vars

\* a task whose call gave no result
FailedTask(t) == task[t].pc = "failed" \/ (task[t].pc = "done" /\ ~task[t].ret)

\* C11: a task that fails, whatever the reason, writes nothing: its row is
\* as it was loaded, the step in which it fails or returns touches no cell,
\* no file, no lock and no other task, and all dispatched tasks still end.
C11_FailureWritesNothing ==
    /\ [](\A t \in Rows : FailedTask(t) => (df[t] = df0[t] /\ Blank(df[t]) /\ writes[t] = 0))
    /\ [][\A t \in Rows :
            (task[t].pc \in {"call", "failed"} /\ task'[t] # task[t] /\ task'[t].pc # "write") =>
                /\ df' = df /\ file' = file /\ lock' = lock /\ writes' = writes
                /\ \A u \in Rows \ {t} : task'[u] = task[u]]_vars
    /\ []((main \in {"final_wait", "final_save", "done"} /\ returned # "false") =>
            \A t \in Range(rows_to_process) : task[t].pc = "done")

C11_Witness ==
    /\ main = "done"
    /\ \E t, u \in Rows :
          /\ Dispatched(t) /\ FailedTask(t) /\ df[t] = df0[t]
          /\ Dispatched(u) /\ task[u].ret /\ df[u] = Str(NewJson)

\* C16: the tasks that are sleeping, calling or writing never outnumber
\* max_workers; the others that were submitted wait in the queue.
C16_BoundedPool ==
    /\ NumRunning <= config.max_workers
    /\ \A k \in 1..submitted :
          task[rows_to_process[k]].pc = "queued" \/ Running(rows_to_process[k])
             \/ task[rows_to_process[k]].pc = "done"
    /\ \A t \in Rows : Running(t) => \E k \in 1..submitted : rows_to_process[k] = t

C16_Witness ==
    /\ NumRunning = config.max_workers
    /\ \E t, u \in Rows : task[t].pc = "queued" /\ task[u].pc = "backoff"

\* C12: once the input could not be loaded or a snapshot could not be
\* written, the run is over and its result is failure.
C12_IOFailureEndsRun ==
    (hist.save_failed \/ (main # "load" /\ env.disk \in {"missing", "unreadable"})) =>
        (main = "done" /\ returned = "false")

\* C18: with the input path missing the run ends failed: no row is scanned,
\* no task is created, and no step changes the file.
C18_MissingInput ==
    /\ [](env.disk = "missing" =>
            /\ main \in {"load", "done"}
            /\ rows_to_process = <<>>
            /\ \A t \in Rows : task[t].pc = "none" /\ writes[t] = 0
            /\ (main = "done" => returned = "false"))
    /\ [][env.disk = "missing" => file' = file]_vars

C18_Witness == env.disk = "missing" /\ main = "done" /\ returned = "false"

\* the extensions of the formats the loader is specified to accept
SupportedExtensions == {".csv", ".xlsx", ".xls", ".xlsm"}

\* C19: an input whose extension is neither delimited text nor a spreadsheet
\* container is rejected: the run ends failed and no table is scanned.
C19_UnsupportedFormat ==
    (env.ext \notin SupportedExtensions /\ main # "load") =>
        (main = "done" /\ returned = "false" /\ rows_to_process = <<>>)

\* C20: without the prompt column the run goes on: every pending row is
\* submitted with the empty prompt and its outcome is recorded as usual.
C20_MissingPromptColumn ==
    (~env.has_prompt_col /\ env.disk \in {"ok", "readonly"}) =>
        /\ returned # "false"
        /\ Scanned => /\ Range(rows_to_process) = {t \in Rows : Blank(df0[t])}
                      /\ \A t \in Range(rows_to_process) : user_prompts[t] = <<>>
        /\ main = "done" =>
              \A t \in Range(rows_to_process) :
                  /\ task[t].pc = "done"
                  /\ df[t] = IF task[t].ret THEN Str(NewJson) ELSE df0[t]

C20_Witness ==
    /\ ~env.has_prompt_col
    /\ main = "done" /\ returned = "true"
    /\ \E t, u \in Rows :
          /\ task[t].ret /\ user_prompts[t] = <<>> /\ df[t] = Str(NewJson)
          /\ Dispatched(u) /\ ~task[u].ret /\ user_prompts[u] = <<>>

\* C13: when no call of the endpoint succeeds, the finished run leaves the
\* table as it was loaded, row for row, and every result cell that was
\* empty is empty in the table and in the file.
C13_AllFailingLeavesTable ==
    ("ok" \notin env.remote /\ main = "done") =>
        /\ DOMAIN df = DOMAIN df0
        /\ df = df0
        /\ \A t \in Rows : Blank(df0[t]) => (Blank(df[t]) /\ Blank(ReadCell(file.col[t])))
        /\ \A t \in Rows : ~Blank(df0[t]) => file.col[t] = df0[t].text

C13_Witness ==
    /\ "ok" \notin env.remote /\ main = "done" /\ returned = "true"
    /\ \E t, u \in Rows :
          /\ t # u
          /\ Dispatched(t) /\ ~task[t].ret /\ Blank(df[t])
          /\ ~Dispatched(u) /\ df[u] = Str(OldJson)
    /\ \A t \in Rows : Dispatched(t) => (task[t].pc = "done" /\ ~task[t].ret)

\* C17: two different model identifiers have two different result columns,
\* so the run of one model finds nothing of the other model's results: all
\* rows are pending for it.
C17_ColumnPerModel ==
    (env.model_name # env.other_model /\ Scanned) =>
        /\ response_col(env.model_name) # response_col(env.other_model)
        /\ Range(rows_to_process) = Rows

\* C14: in the run that follows a kill, the rows whose results are in the
\* last snapshot that was written completely are not pending, and all the
\* other rows that were pending are pending again and get dispatched.
C14_ResumeAfterKill ==
    (hist.how = "crash" /\ Scanned) =>
        /\ \A t \in Rows :
              NonEmptyCell(ReadCell(hist.persisted[t])) => (t \notin Range(rows_to_process) /\ ~Dispatched(t))
        /\ \A t \in Rows :
              ~NonEmptyCell(ReadCell(hist.persisted[t])) => t \in Range(rows_to_process)

\* C15: a row whose task failed is empty in the output file when the run is
\* over; the next invocation finds it pending and dispatches it again.
C15_FailedRowRetriedNextRun ==
    /\ (main = "done" /\ returned = "true") =>
          \A t \in Rows : FailedTask(t) => Blank(ReadCell(file.col[t]))
    /\ (hist.how = "rerun" /\ Scanned) => hist.failed \subseteq Range(rows_to_process)
    /\ (hist.how = "rerun" /\ main \in {"final_wait", "final_save", "done"}) =>
          \A t \in hist.failed : task[t].pc = "done"

C15_Witness ==
    /\ hist.how = "rerun" /\ hist.failed # {}
    /\ main = "done"
    /\ \E t \in hist.failed : task[t].ret /\ file.col[t] = NewJson

\* d begins with the bytes of sig
StartsWith(d, sig) == Len(d) >= Len(sig) /\ \A i \in 1..Len(sig) : d[i] = sig[i]

\* d has the bytes of sig from 0-based offset off on
HasAt(d, off, sig) == Len(d) >= off + Len(sig) /\ \A i \in 1..Len(sig) : d[off + i] = sig[i]

\* C27: the sniffed format is PNG, JPEG, GIF or WEBP for data that begins
\* with the respective signature and PNG for everything else, short data
\* included.
C27_FormatSniffing ==
    mime_type # "none" =>
        /\ StartsWith(image_data, PngMagic) => mime_type = "image/png"
        /\ StartsWith(image_data, JpegMagic) => mime_type = "image/jpeg"
        /\ (StartsWith(image_data, Gif87a) \/ StartsWith(image_data, Gif89a)) => mime_type = "image/gif"
        /\ (StartsWith(image_data, Riff) /\ HasAt(image_data, 8, Webp)) => mime_type = "image/webp"
        /\ ~(\/ StartsWith(image_data, PngMagic) \/ StartsWith(image_data, JpegMagic)
             \/ StartsWith(image_data, Gif87a) \/ StartsWith(image_data, Gif89a)
             \/ (StartsWith(image_data, Riff) /\ HasAt(image_data, 8, Webp)))
              => mime_type = "image/png"

C27_Witness ==
    /\ mime_type = "image/png"
    /\ Len(image_data) \in 1..7
    /\ StartsWith(image_data, SubSeq(PngMagic, 1, 4))

\* the three texts the parser is specified to try, <<>> standing for a
\* text that is not there
WholeText(c) == c

FencedText(c) ==
    IF \E i, j \in 1..Len(c) : i < j /\ c[i] = FenceOpen /\ c[j] \in {FenceOpen, FenceClose}
    THEN LET i == Find(c, {FenceOpen}, 1)
             j == Find(c, {FenceOpen, FenceClose}, i + 1)
         IN  SubSeq(c, i + 1, j - 1)
    ELSE <<>>

BracedText(c) ==
    IF \E i, j \in 1..Len(c) : i < j /\ c[i] = "{" /\ c[j] = "}"
    THEN SubSeq(c, Find(c, {"{"}, 1), RFind(c, {"}"}))
    ELSE <<>>

\* C30: the result is the value of the first of the whole text, the fenced
\* block and the first-brace-to-last-brace substring that is valid JSON,
\* and a failure only when none of them is.
C30_ParseOrder ==
    (parsed.done /\ parsed # Raised) =>
        parsed = IF ValidJson(WholeText(content)) THEN json_loads(WholeText(content))
                 ELSE IF ValidJson(FencedText(content)) THEN json_loads(FencedText(content))
                 ELSE IF ValidJson(BracedText(content)) THEN json_loads(BracedText(content))
                 ELSE ParseFailure

\* anchor k of the drawing resolves to an image
Resolves(a, k) ==
    a.rels_ok /\ a.drawing_ok /\ a.anchors[k].rid \in a.media \ a.unreadable

SomeAnchorResolves(a) == \E k \in 1..Len(a.anchors) : Resolves(a, k)

\* C24: when anchors resolve, the rows with a payload are exactly the rows
\* r with a resolving anchor at 0-based row r - 1, for each of the anchors,
\* also for several anchors of one image file.
C24_AnchoredRows ==
    (build = "done" /\ SomeAnchorResolves(archive)) =>
        \A r \in IndexRows :
            get_image_base64(images, r) # 0 <=>
                \E k \in 1..Len(archive.anchors) :
                    Resolves(archive, k) /\ archive.anchors[k].row + 1 = r

\* the readable media files in the order of their numbers
SortedMedia(a) == SelectSeqBy([n \in 1..MaxImages |-> n], a.media \ a.unreadable)

\* C25: when no anchor resolves, the image at 0-based position i of the
\* media files sorted by number is the payload of row i + 2, and no other
\* row has one.
C25_FallbackOrder ==
    (build = "done" /\ ~SomeAnchorResolves(archive)) =>
        \A r \in IndexRows :
            get_image_base64(images, r) =
                IF r - 1 \in 1..Len(SortedMedia(archive)) THEN SortedMedia(archive)[r - 1] ELSE 0

\* C26: when at least one anchor resolves, every entry of the index is the
\* image of a resolving anchor at that row.
C26_FallbackOnlyWithoutAnchors ==
    (build = "done" /\ SomeAnchorResolves(archive)) =>
        \A r \in IndexRows :
            get_image_base64(images, r) # 0 =>
                \E k \in 1..Len(archive.anchors) :
                    /\ Resolves(archive, k)
                    /\ archive.anchors[k].row + 1 = r
                    /\ archive.anchors[k].rid = images[r]

\* the workbook without the files that cannot be read or decoded
Readable(a) ==
    [a EXCEPT !.media = a.media \ a.unreadable,
              !.unreadable = {},
              !.anchors = IF a.rels_ok /\ a.drawing_ok THEN a.anchors ELSE <<>>,
              !.rels_ok = TRUE,
              !.drawing_ok = TRUE]

\* C28: the build always ends normally, and a file that cannot be read or
\* decoded only takes its own contribution away: the index is the one the
\* same workbook gives without that file.
C28_SoftFailure ==
    /\ build \in {"none", "done"}
    /\ build = "done" =>
          /\ images = extract_images(Readable(archive))
          /\ \A n \in archive.unreadable : \A r \in IndexRows : images[r] # n

C28_Witness ==
    /\ build = "done"
    /\ \E n, m \in archive.media : n < m /\ n \in archive.unreadable /\ m \notin archive.unreadable
    /\ ~archive.drawing_ok
    /\ \E r \in IndexRows : images[r] # 0

\* C29: once built, the index never changes, whatever the main thread and
\* the workers do, and the image a task was given is what a lookup of its
\* row returns at any later moment.
C29_IndexReadOnly ==
    /\ [][build = "done" => (images' = images /\ build' = "done")]_vars
    /\ [](Scanned =>
            \A t \in Range(rows_to_process) : row_images[t] = get_image_base64(images, t + 1))

C29_Witness ==
    /\ main = "done" /\ build = "done"
    /\ \E t, u \in Rows :
          /\ row_images[t] # 0 /\ task[t].ret /\ writes[t] = 1
          /\ row_images[u] = 0 /\ Dispatched(u)
    /\ \E r \in IndexRows : images[r] # 0

\* C21: for a workbook, no step writes the input file; the output file is
\* input name + _results + extension; a snapshot copies the input exactly
\* when the output file is not there, and otherwise changes the existing
\* output file without copying.
C21_DerivedOutputFile ==
    /\ [](kind = "excel" =>
            /\ get_output_file_path(env) = InputBase \o "_results" \o env.ext
            /\ get_output_file_path(env) # input_file(env)
            /\ fs[input_file(env)] = fs[AtStart]
            /\ copies <= 1
            /\ copies = 1 => fs[get_output_file_path(env)].exists)
    /\ [][(kind = "excel" /\ fs' # fs) =>
            /\ fs'[input_file(env)] = fs[input_file(env)]
            /\ fs'[get_output_file_path(env)].exists
            /\ copies' = IF fs[get_output_file_path(env)].exists THEN copies ELSE copies + 1
            /\ fs'[get_output_file_path(env)].pictures = fs[input_file(env)].pictures]_vars

C21_Witness ==
    /\ kind = "excel"
    /\ copies = 1
    /\ fs[input_file(env)] = fs[AtStart]
    /\ \E j \in 1..Len(fs[get_output_file_path(env)].header) :
          /\ fs[get_output_file_path(env)].header[j] = ResultCol
          /\ \A t \in Rows : fs[get_output_file_path(env)].cols[j][t] = NewJson

\* C22: in the output workbook a run has created, every column of the input
\* that has a header or data is as in the input, header cell and data cells,
\* and so are the pictures, also when header cells between named columns
\* are empty.
C22_OnlyResultColumnChanges ==
    (kind = "excel" /\ copies = 1) =>
        /\ fs[get_output_file_path(env)].pictures = fs[input_file(env)].pictures
        /\ \A j \in 1..Len(fs[input_file(env)].header) :
              (\/ fs[input_file(env)].header[j] # BlankHeader
               \/ \E i \in Rows : fs[input_file(env)].cols[j][i] # <<>>) =>
                  /\ fs[get_output_file_path(env)].header[j] = fs[input_file(env)].header[j]
                  /\ fs[get_output_file_path(env)].cols[j] = fs[input_file(env)].cols[j]

\* C23: a delimited file whose header cells are all named and whose cells
\* hold ordinary values is, once a snapshot has overwritten it, the file as
\* it was with exactly one more column, the result column, at the end.
C23_CsvColumnsKept ==
    (/\ kind = "csv"
     /\ fs[input_file(env)] # fs[AtStart]
     /\ \A j \in 1..Len(fs[AtStart].header) :
           /\ fs[AtStart].header[j] # BlankHeader
           /\ \A i \in Rows : fs[AtStart].cols[j][i] # NaText) =>
        /\ Len(fs[input_file(env)].header) = Len(fs[AtStart].header) + 1
        /\ fs[input_file(env)].header = Append(fs[AtStart].header, ResultCol)
        /\ \A j \in 1..Len(fs[AtStart].header) :
              fs[input_file(env)].cols[j] = fs[AtStart].cols[j]

\* C31: parse gives a structured result or the failure value and never
\* raises; a row whose answer failed to parse was asked once and its result
\* cell is as empty as it was.
C31_ParseNeverRaises ==
    /\ parsed.done => (parsed.ok \/ parsed = ParseFailure)
    /\ \A t \in Rows :
          (task[t].pc \in {"failed", "done"} /\ ~task[t].ret) =>
              /\ task[t].attempt = 1
              /\ writes[t] = 0
              /\ ~check_row_processed(ResultColumn(frame), t)

\* C32: a recorded value is a non-empty text; a row recorded by the earlier
\* run counts as complete when the next run has loaded the table; an empty
\* parsed value is a failure and records nothing.
C32_RecordedIsComplete ==
    /\ \A t \in Rows :
          (task[t].pc = "done" /\ task[t].ret) => check_row_processed(ResultColumn(frame), t)
    /\ \A t \in Rows :
          (task[t].pc \in {"write", "failed"} /\ parsed.ok /\ parsed.value = <<"{", "}">>) =>
              /\ task[t].pc = "failed"
              /\ writes[t] = 0
              /\ ~check_row_processed(ResultColumn(frame), t)
    /\ (hist.run > 1 /\ frame # NoFrame) =>
          \A t \in hist.pending \ hist.failed : check_row_processed(ResultColumn(frame), t)

\* the text of row t's result cell in the output file, empty when the file
\* or the column is not there
PersistedResult(files, t) ==
    IF files[get_output_file_path(env)].exists
       /\ ColumnOf(files[get_output_file_path(env)].header, ResultCol) # 0
    THEN files[get_output_file_path(env)].cols[
             ColumnOf(files[get_output_file_path(env)].header, ResultCol)][t]
    ELSE <<>>

\* C33: no step changes, empties or removes a non-empty result cell of the
\* output file, whether this run or an earlier one persisted it.
C33_ResultsNeverShrink ==
    [][\A t \in Rows :
          Strip(PersistedResult(fs, t)) # <<>> => PersistedResult(fs', t) = PersistedResult(fs, t)]_vars

\* C34: every run terminates, every dispatched task reaches an outcome, a
\* lock that is held is released (also when the write or the snapshot
\* fails), and a run that dispatched tasks ends with the final snapshot.
C34_RunTerminates ==
    /\ <>(main = "done" /\ returned # "none")
    /\ \A t \in Rows : (task[t].pc = "queued") ~> (task[t].pc = "done")
    /\ lock ~> ~lock
    /\ (main = "submit") ~>
          (main = "done" /\ returned = "true" /\ ~lock
           /\ (SaveFails(env) \/ file = SaveColumn(kind, file, df)))

\* a run that dispatched every row is over: one task recorded its result,
\* another returned False, the final snapshot failed, the lock is free
C34_Witness ==
    /\ main = "done" /\ returned = "true" /\ ~lock
    /\ SaveFails(env)
    /\ Len(rows_to_process) = MaxRows
    /\ \E t \in Rows : task[t].pc = "done" /\ task[t].ret /\ writes[t] = 1
    /\ \E t \in Rows : task[t].pc = "done" /\ ~task[t].ret

\* C35: a run that finds no pending row is over with the scan: it reports
\* success, no task exists and no request was made, nothing was written to
\* the table, the lock was never taken and the output file is as it was.
C35_NothingPendingNoOp ==
    (main \notin {"load", "scan"} /\ returned # "false" /\ rows_to_process = <<>>) =>
        /\ main = "done"
        /\ returned = "true"
        /\ \A t \in Rows : task[t] = IdleTask /\ writes[t] = 0
        /\ ~lock
        /\ new_processed_count = 0
        /\ collected = {}
        /\ file.col = hist.persisted
        /\ df = LoadColumn(file)

C35_Witness ==
    /\ main = "done"
    /\ returned = "true"
    /\ rows_to_process = <<>>
    /\ file.has_col
    /\ \A t \in Rows : check_row_processed(df, t)

\* C36: table row i is given the picture of its own sheet row i + 2, and in
\* the output workbook every result stands in the sheet row whose prompt
\* cell and picture it was made from.
C36_ResultInItsRow ==
    /\ build = "scanned" =>
          \A t \in Rows :
              row_images[t] = IF t + 1 \in archive.sheets[1].pictures
                              THEN [sheet |-> 1, row |-> t + 1] ELSE NoPicture
    /\ fs # NoBook =>
          \A n \in 1..Len(fs.sheets) : \A r \in SheetRows :
              fs.sheets[n].result[r] # NoResult =>
                  /\ fs.sheets[n].result[r].prompt = [sheet |-> n, row |-> r]
                  /\ fs.sheets[n].result[r].image \in {NoPicture, [sheet |-> n, row |-> r]}

\* the cells of column name in file f, <<>> when the file or the column is
\* not there
FileColumn(f, name) ==
    IF f.exists /\ ColumnOf(f.header, name) # 0 THEN f.cols[ColumnOf(f.header, name)] ELSE <<>>

\* C37: a reset leaves every row pending for the current model on the next
\* run and changes neither the input columns nor the result column of
\* another model, in the file that holds the results.
C37_ResetClearsOwnResults ==
    [][ResetProgress =>
          /\ \A t \in Rows : ~check_row_processed(ResultColumn(LoadFrame(env, fs')), t)
          /\ \A c \in {PromptCol, NoteCol} :
                FileColumn(fs'[input_file(env)], c) = FileColumn(fs[input_file(env)], c)
          /\ FileColumn(fs'[get_output_file_path(env)], OtherCol)
                = FileColumn(fs[get_output_file_path(env)], OtherCol)]_vars

\* C38: two drawings that use the same relationship identifier for
\* different images, anchored in different rows, each have their own image
\* in the index under the row of their own anchor.
C38_OwnRelationships ==
    build = "done" =>
        \A j, k \in 1..Len(archive) :
            (archive[j].rid = archive[k].rid /\ archive[j].target # archive[k].target
             /\ archive[j].row # archive[k].row) =>
                /\ get_image_base64(images, archive[j].row + 1) = archive[j].target
                /\ get_image_base64(images, archive[k].row + 1) = archive[k].target

====
